---- MODULE Spec2Model ----
(***************************************************************************)
(* Verification model of the QUDA reduction engine, lib/reduce_quda.cu:    *)
(* the process-wide reduction buffer manager (initReduce / endReduce), the *)
(* operand compatibility check (checkSpinor), the heavy-quark residual     *)
(* norm entry points with the completion protocol of a reduction call,     *)
(* the buffer footprint computed in 32-bit int, and the catalogue of       *)
(* reduction entry points with their functors and write flags; and of      *)
(* three library components: the dispatch and tuning of the block          *)
(* orthogonalization (lib/block_orthogonalize.cu), prepare() of the Wilson *)
(* Dirac operators, and the barriers of the tensor-core dslash5-inverse    *)
(* dagger kernel.                                                          *)
(***************************************************************************)
EXTENDS Integers, Sequences, FiniteSets, TLC

\* ------------------------------------------------------------------------
\* Bounds of the model
\* ------------------------------------------------------------------------
\* number of initReduce() calls explored
MaxInits == 2
\* number of reductions launched on the device
MaxCalls == 2
\* largest local volume (sites) of an operand field
MaxVolume == 2
\* largest number of processes of the communicator
MaxCommSize == 2

\* ------------------------------------------------------------------------
\* Program constants
\* ------------------------------------------------------------------------
\* the colour count the heavy-quark kernels support
HQ_NCOLOR == 3

\* the null pointer of the static handles (d_reduce = 0, ...)
NULL == [alloc |-> 0, view |-> "null"]

\* the values of the environment variable QUDA_ENABLE_FAST_REDUCE
EnvValues == {"unset", "1", "0"}

VARIABLES
  \* --- static state of reduce_quda.cu ---
  d_reduce,            \* device buffer handle
  h_reduce,            \* host buffer handle
  hd_reduce,           \* device-visible alias of the host buffer
  reduceEnd,           \* completion event handle (0 = never created)
  fast_reduce_enabled, \* spin-wait completion selected
  \* --- environment of the process ---
  env,                 \* value of QUDA_ENABLE_FAST_REDUCE
  canMapHostMemory,    \* deviceProp.canMapHostMemory
  lp64,                \* 64-bit build (__LP64__ or _WIN64)
  heap,                \* every buffer ever allocated: kind, number of frees
  events,              \* every event ever created: "live" or "destroyed"
  cudaError,           \* the runtime's sticky last error is set
  aborted,             \* the process has been aborted (errorQuda / crash)
  \* --- history of the calls made ---
  reduceLive,          \* an initReduce() returned and no endReduce() since
  nInits,              \* number of initReduce() calls made
  alternating,         \* the calls so far are init, end, init, end, ...
  reps,                \* completed init(); end() repetitions
  lastCall,            \* the latest initReduce / endReduce call and what it did
  \* --- a reduction call in progress ---
  pc,                  \* host position inside a reduction call
  kern,                \* state of the reduction kernel on the stream
  call,                \* the reduction call: entry point, operands, id
  dbuf,                \* content of the device reduction buffer
  hbuf,                \* content of the host reduction buffer
  hostReadDone,        \* ids of the calls whose host read has completed
  combined,            \* the value the completed reduction returned
  rtn,                 \* the value the entry point returned
  fld,                 \* the operand fields x, y, r and their colour count
  commSize,            \* comm_size(): number of processes
  \* --- operand compatibility check ---
  chk,                 \* the latest checkSpinor call and its outcome
  \* --- buffer footprint of initReduce ---
  cap,                 \* the device properties, the build and the sizes computed
  \* --- a call of an entry point of the reduction catalogue ---
  blas,                \* coefficients, operand fields before and after, result
  \* --- block orthogonalization (block_orthogonalize.cu) ---
  ortho,               \* a BlockOrthogonalize call: build, fields, outcome
  tp,                  \* the TuneParam of a BlockOrtho tuning sweep
  \* --- Wilson Dirac operators (DiracWilson, DiracWilsonPC) ---
  dirac,               \* a prepare() call: operator, arguments, outcome
  \* --- the tensor-core dslash5-inverse dagger kernel ---
  tc                   \* one thread block: launch geometry and its threads

lifeVars == <<d_reduce, h_reduce, hd_reduce, reduceEnd, fast_reduce_enabled,
              env, canMapHostMemory, lp64, heap, events, cudaError,
              reduceLive, nInits, alternating, reps, lastCall>>
callVars == <<pc, kern, call, dbuf, hbuf, hostReadDone, combined, rtn, fld,
              commSize>>
\* the state of the pure computations checked apart from the buffer manager
libVars == <<ortho, tp, dirac, tc>>
pureVars == <<chk, cap, blas, libVars>>
vars == <<lifeVars, aborted, callVars, pureVars>>

\* ------------------------------------------------------------------------
\* Pointers and allocations
\* ------------------------------------------------------------------------
\* a pointer to allocation i seen from the host or from the device
Ptr(i, v) == [alloc |-> i, view |-> v]

\* device_malloc / mapped_malloc / pinned_malloc: a new allocation of a kind
Malloc(h, kind) == Append(h, [kind |-> kind, frees |-> 0])

\* device_free / host_free of the allocation a handle designates
Free(h, p) == [h EXCEPT ![p.alloc].frees = @ + 1]

\* cudaHostGetDevicePointer: the device alias of a mapped host allocation
HostGetDevicePointer(p) == Ptr(p.alloc, "device")

\* ------------------------------------------------------------------------
\* Values held by the reduction buffers and returned by a reduction
\* ------------------------------------------------------------------------
\* an exact fraction n/d, d > 0 (the quotient of two accumulated sums)
RECURSIVE Gcd(_, _)
Gcd(a, b) == IF b = 0 THEN a ELSE Gcd(b, a % b)

Abs(a) == IF a < 0 THEN -a ELSE a

Rat(n, d) ==
  LET g == Gcd(Abs(n), d) IN [n |-> n \div g, d |-> d \div g]

RatAdd(p, q) == Rat(p.n * q.d + q.n * p.d, p.d * q.d)

\* p / k for an integer k > 0
RatDivInt(p, k) == Rat(p.n, p.d * k)

\* make_double3(x, y, z)
Double3(x, y, z) == [x |-> x, y |-> y, z |-> z]

\* make_double3(0.0, 0.0, 0.0)
ZeroTriple == Double3(Rat(0, 1), Rat(0, 1), Rat(0, 1))

\* content of a buffer: absent, allocated and not yet written, zero-filled,
\* or holding the result a kernel wrote for a call
NoBuffer == [tag |-> "none", val |-> ZeroTriple, by |-> 0]
Uninit == [tag |-> "uninit", val |-> ZeroTriple, by |-> 0]
Zeroed == [tag |-> "zero", val |-> ZeroTriple, by |-> 0]
Written(v, id) == [tag |-> "data", val |-> v, by |-> id]

\* the record of the latest API call
Called(op, e, live, ops, ret) ==
  [op |-> op, env |-> e, wasLive |-> live, ops |-> ops, returned |-> ret]

\* ------------------------------------------------------------------------
\* initReduce()
\* ------------------------------------------------------------------------
\* mutant: the device buffer is allocated at every init
NeedDeviceAlloc_Always(d) == TRUE

\* if (!d_reduce): the device buffer is allocated only when the handle is null
NeedDeviceAlloc(d) == d = NULL

\* if (!h_reduce): the host buffer is allocated only when the handle is null
NeedHostAlloc(h) == h = NULL

\* mutant: mapped memory whenever the device can map, also on a 32-bit build
UseMapped_No64(canMap, is64) == canMap

\* zero-copy (mapped) host memory only on a 64-bit build and a capable device
UseMapped(canMap, is64) == is64 /\ canMap

\* hd_reduce for a newly allocated host buffer h: its device alias when
\* mapped, the device buffer d itself when pinned
DeviceVisibleHandle(mapped, h, d) ==
  IF mapped THEN HostGetDevicePointer(h) ELSE d

\* mutant: the flag is assigned from the toggle at every init
FastReduceAfterInit_Assign(e, old) == e # "unset" /\ e = "1"

\* getenv + strcmp(fast_reduce_env, "1") == 0: the flag is set, never cleared
FastReduceAfterInit(e, old) == IF e # "unset" /\ e = "1" THEN TRUE ELSE old

\* checkCudaError(): fatal when the runtime's last error is set
CheckCudaErrorFails(err) == err

\* mutant: the new host buffer is left as the allocator returned it
Memset0_Skipped(buf) == buf

\* memset(h_reduce, 0, bytes): every byte of the new host buffer is zero
Memset0(buf) == Zeroed

InitReduce ==
  /\ ~aborted
  /\ pc = "idle"
  /\ nInits < MaxInits
  /\ LET allocD == NeedDeviceAlloc(d_reduce)
         heap1 == IF allocD THEN Malloc(heap, "device") ELSE heap
         d1 == IF allocD THEN Ptr(Len(heap1), "device") ELSE d_reduce
         allocH == NeedHostAlloc(h_reduce)
         mapped == UseMapped(canMapHostMemory, lp64)
         heap2 == IF allocH
                  THEN Malloc(heap1, IF mapped THEN "mapped" ELSE "pinned")
                  ELSE heap1
         h1 == IF allocH THEN Ptr(Len(heap2), "host") ELSE h_reduce
         hd1 == IF allocH THEN DeviceVisibleHandle(mapped, h1, d1) ELSE hd_reduce
         events1 == Append(events, "live")
         fatal == CheckCudaErrorFails(cudaError)
         ops == (IF allocD THEN {<<"device_malloc", d1.alloc>>} ELSE {})
                \cup (IF allocH THEN {<<"host_malloc", h1.alloc>>} ELSE {})
                \cup {<<"cudaEventCreate", Len(events1)>>}
     IN /\ heap' = heap2
        /\ d_reduce' = d1
        /\ h_reduce' = h1
        /\ hd_reduce' = hd1
        /\ dbuf' = IF allocD THEN Uninit ELSE dbuf
        /\ hbuf' = IF allocH THEN Memset0(Uninit) ELSE hbuf
        /\ events' = events1
        /\ reduceEnd' = Len(events1)
        /\ fast_reduce_enabled' = FastReduceAfterInit(env, fast_reduce_enabled)
        /\ cudaError' = FALSE
        /\ aborted' = fatal
        /\ reduceLive' = IF fatal THEN reduceLive ELSE TRUE
        /\ nInits' = nInits + 1
        /\ alternating' = (alternating /\ ~reduceLive)
        /\ lastCall' = Called("init", env, reduceLive, ops, ~fatal)
  /\ UNCHANGED <<env, canMapHostMemory, lp64, reps>>
  /\ UNCHANGED <<pc, kern, call, hostReadDone, combined, rtn, fld, commSize, pureVars>>

\* device_malloc / mapped_malloc / pinned_malloc abort the process when the
\* allocation fails
InitReduceAllocFail ==
  /\ ~aborted
  /\ pc = "idle"
  /\ nInits < MaxInits
  /\ \E which \in {"device", "host"} :
       /\ which = "device" => NeedDeviceAlloc(d_reduce)
       /\ which = "host" => NeedHostAlloc(h_reduce)
       /\ LET allocD == which = "host" /\ NeedDeviceAlloc(d_reduce)
              heap1 == IF allocD THEN Malloc(heap, "device") ELSE heap
              d1 == IF allocD THEN Ptr(Len(heap1), "device") ELSE d_reduce
          IN /\ heap' = heap1
             /\ d_reduce' = d1
             /\ dbuf' = IF allocD THEN Uninit ELSE dbuf
             /\ lastCall' = Called("init", env, reduceLive,
                                   IF allocD THEN {<<"device_malloc", d1.alloc>>}
                                   ELSE {}, FALSE)
  /\ aborted' = TRUE
  /\ UNCHANGED <<h_reduce, hd_reduce, reduceEnd, fast_reduce_enabled, env,
                 canMapHostMemory, lp64, events, cudaError, reduceLive, nInits,
                 alternating, reps>>
  /\ UNCHANGED <<pc, kern, call, hbuf, hostReadDone, combined, rtn, fld,
                 commSize, pureVars>>

\* ------------------------------------------------------------------------
\* endReduce()
\* ------------------------------------------------------------------------
\* if (d_reduce) / if (h_reduce): a buffer is freed only through a non-null
\* handle
NeedFree(p) == p # NULL

\* mutant: the handle keeps designating the freed buffer
HandleAfterFree_Dangling(p) == p

\* d_reduce = 0, h_reduce = 0 after the free
HandleAfterFree(p) == NULL

\* cudaEventDestroy is given a valid handle only when the event it names
\* has been created and not yet destroyed
EventValid(ev, e) == e # 0 /\ ev[e] = "live"

\* endReduce() calls cudaEventDestroy(reduceEnd) whatever the handles are
DestroysEvent(d, h) == TRUE

EndReduce ==
  /\ ~aborted
  /\ pc = "idle"
  /\ LET freeD == NeedFree(d_reduce)
         heap1 == IF freeD THEN Free(heap, d_reduce) ELSE heap
         freeH == NeedFree(h_reduce)
         heap2 == IF freeH THEN Free(heap1, h_reduce) ELSE heap1
         destroy == DestroysEvent(d_reduce, h_reduce)
         valid == EventValid(events, reduceEnd)
         ops == (IF freeD THEN {<<"device_free", d_reduce.alloc>>} ELSE {})
                \cup (IF freeH THEN {<<"host_free", h_reduce.alloc>>} ELSE {})
                \cup (IF destroy THEN {<<"cudaEventDestroy", reduceEnd>>} ELSE {})
     IN /\ heap' = heap2
        /\ d_reduce' = IF freeD THEN HandleAfterFree(d_reduce) ELSE d_reduce
        /\ h_reduce' = IF freeH THEN HandleAfterFree(h_reduce) ELSE h_reduce
        /\ hd_reduce' = NULL
        /\ dbuf' = IF freeD THEN NoBuffer ELSE dbuf
        /\ hbuf' = IF freeH THEN NoBuffer ELSE hbuf
        /\ lastCall' = Called("end", env, reduceLive, ops, TRUE)
        /\ IF ~destroy
           THEN UNCHANGED <<events, cudaError, aborted>>
           ELSE IF valid
           THEN /\ events' = [events EXCEPT ![reduceEnd] = "destroyed"]
                /\ UNCHANGED <<cudaError, aborted>>
           ELSE \* a handle that names no live event: the runtime reports an
                \* invalid resource handle, ignores the call, or crashes
                /\ \E outcome \in {"error", "ignored", "crash"} :
                     /\ cudaError' = (cudaError \/ outcome = "error")
                     /\ aborted' = (outcome = "crash")
                /\ UNCHANGED events
  /\ reduceLive' = FALSE
  /\ alternating' = (alternating /\ reduceLive)
  /\ reps' = IF alternating /\ reduceLive THEN reps + 1 ELSE reps
  /\ UNCHANGED <<reduceEnd, fast_reduce_enabled, env, canMapHostMemory, lp64,
                 nInits>>
  /\ UNCHANGED <<pc, kern, call, hostReadDone, combined, rtn, fld, commSize, pureVars>>

\* ------------------------------------------------------------------------
\* The environment: the application changes QUDA_ENABLE_FAST_REDUCE
\* ------------------------------------------------------------------------
SetEnv ==
  /\ ~aborted
  /\ pc = "idle"
  /\ \E v \in EnvValues \ {env} : env' = v
  /\ UNCHANGED <<d_reduce, h_reduce, hd_reduce, reduceEnd, fast_reduce_enabled,
                 canMapHostMemory, lp64, heap, events, cudaError, aborted,
                 reduceLive, nInits, alternating, reps, lastCall>>
  /\ UNCHANGED <<callVars, pureVars>>


\* ------------------------------------------------------------------------
\* The buffer footprint computed by initReduce()
\* ------------------------------------------------------------------------
\* the range of a 32-bit signed int
INT_MAX == 2147483647
INT_MIN == -INT_MAX - 1

\* sizeof(QudaSumFloat): the accumulator is a double
SizeofSumFloat == 8

\* an int value and whether a signed overflow occurred while computing it
IntVal(v, ovf) == [v |-> v, ovf |-> ovf]

\* a + b in 32-bit two's complement arithmetic (the sum wraps around)
AddInt(a, b) ==
  IF a.v >= 0 /\ b.v >= 0 /\ b.v > INT_MAX - a.v
  THEN IntVal((a.v - INT_MAX - 1) + (b.v - INT_MAX - 1), TRUE)
  ELSE IF a.v < 0 /\ b.v < 0 /\ b.v < INT_MIN - a.v
  THEN IntVal((a.v + INT_MAX + 1) + (b.v + INT_MAX + 1), TRUE)
  ELSE IntVal(a.v + b.v, a.ovf \/ b.ovf)

\* the weight of the upper half of an int
Limb == 65536

\* t modulo Limb as a signed half: the value in [-Limb/2, Limb/2)
WrapLimb(t) ==
  LET m == t % Limb IN IF m >= Limb \div 2 THEN m - Limb ELSE m

\* a * k in 32-bit two's complement arithmetic for an operand k in
\* 0 .. Limb/2 - 1 (the factors of the footprint are that small): the halves
\* of a multiplied apart and the upper product wrapped; the flag tells
\* whether the mathematical product leaves the range of int (a negative a
\* is the wrapped value of an earlier overflow)
MulInt(a, k) ==
  LET q == a.v \div Limb
      r == a.v % Limb
      hi == IntVal(WrapLimb(q * k) * Limb, FALSE)
      lo == IntVal(r * k, FALSE)
  IN IntVal(AddInt(hi, lo).v, a.ovf \/ (k > 0 /\ a.v > INT_MAX \div k))

\* const int reduce_size = 4 * sizeof(QudaSumFloat)
reduce_size == 4 * SizeofSumFloat

\* const int max_reduce_blocks = 2*deviceProp.multiProcessorCount
max_reduce_blocks(smCount) == MulInt(IntVal(2, FALSE), smCount)

\* const int max_reduce = 2 * max_reduce_blocks * reduce_size
max_reduce(smCount) ==
  LET blocks == max_reduce_blocks(smCount)
      p1 == MulInt(IntVal(2, blocks.ovf), blocks.v)
  IN MulInt(p1, reduce_size)

\* const int max_multi_reduce =
\*   2 * MAX_MULTI_BLAS_N * MAX_MULTI_BLAS_N * max_reduce_blocks * reduce_size
\* evaluated left to right (the block count of a device is far below INT_MAX)
max_multi_reduce(smCount, n) ==
  LET blocks == max_reduce_blocks(smCount)
      p1 == MulInt(IntVal(2, FALSE), n)
      p2 == MulInt(p1, n)
      p3 == MulInt(IntVal(p2.v, p2.ovf \/ blocks.ovf), blocks.v)
  IN MulInt(p3, reduce_size)

\* size_t bytes = max_reduce > max_multi_reduce ? max_reduce : max_multi_reduce
\* (the int value that is then converted to size_t)
BufferBytes(smCount, n) ==
  LET one == max_reduce(smCount)
      multi == max_multi_reduce(smCount, n)
  IN IntVal(IF one.v > multi.v THEN one.v ELSE multi.v, one.ovf \/ multi.ovf)

\* the multiprocessor counts of the devices and the multi-reduction widths of
\* the builds explored
SmCounts == {1, 2, 13, 28, 64, 80, 108, 132}
MultiBlasWidths == {1, 2, 4, 8, 16, 64, 512, 1024}

\* the footprint computation has not run
NoCap == [multiProcessorCount |-> 1, MAX_MULTI_BLAS_N |-> 1, outcome |-> "none",
          bytes |-> 0, deviceCapacity |-> 0, hostCapacity |-> 0, zeroed |-> 0]

\* the allocations initReduce() makes from a null state: bytes is computed in
\* int; a signed overflow is undefined, the build wraps the value or traps; a
\* negative int converts to a size_t no allocator can serve, and device_malloc
\* aborts; otherwise both buffers hold bytes bytes and the memset covers bytes
AllocateBuffers ==
  /\ ~aborted
  /\ cap.outcome = "pending"
  /\ LET b == BufferBytes(cap.multiProcessorCount, cap.MAX_MULTI_BLAS_N)
     IN \E ub \in (IF b.ovf THEN {"wrap", "trap"} ELSE {"defined"}) :
          IF ub = "trap"
          THEN /\ cap' = [cap EXCEPT !.outcome = "trapped"]
               /\ aborted' = TRUE
          ELSE IF b.v < 0
          THEN /\ cap' = [cap EXCEPT !.outcome = "allocation failed", !.bytes = b.v]
               /\ aborted' = TRUE
          ELSE /\ cap' = [cap EXCEPT !.outcome = "allocated", !.bytes = b.v,
                                     !.deviceCapacity = b.v,
                                     !.hostCapacity = b.v,
                                     !.zeroed = b.v]
               /\ UNCHANGED aborted
  /\ UNCHANGED <<lifeVars, callVars, chk, blas, libVars>>

\* ------------------------------------------------------------------------
\* Operand fields
\* ------------------------------------------------------------------------
\* a site is a sequence of double2 elements <<re, im>>
SiteZ == << <<0, 0>>, <<0, 0>> >>
SiteA == << <<1, 0>>, <<0, 1>> >>
SiteB == << <<1, 2>>, <<2, 0>> >>

\* the fields of a given volume whose first k sites are a and the rest b
PrefixFields(v, a, b) == {[i \in 1..v |-> IF i <= k THEN a ELSE b] : k \in 0..v}

\* the operand sets x, y, r of one call: fields of equal volume
OperandSets ==
  UNION { [x : PrefixFields(v, SiteA, SiteZ),
           y : {[i \in 1..v |-> SiteZ], [i \in 1..v |-> SiteB]},
           r : {[i \in 1..v |-> SiteA], [i \in 1..v |-> SiteB]}] :
          v \in 1..MaxVolume }

\* the colour counts of the fields the solvers hold: the fine-grid fields
\* and the coarse (multigrid) fields
Ncolors == {HQ_NCOLOR, 2 * HQ_NCOLOR}

\* x.Volume()
Volume(f) == Len(f)

\* ------------------------------------------------------------------------
\* The heavy-quark residual norm functors
\* ------------------------------------------------------------------------
\* norm2_(sum, a) for a double2 / float2 element and for a float4 element
norm2_(sum, a) ==
  IF Len(a) = 2 THEN sum + a[1] * a[1] + a[2] * a[2]
  ELSE sum + a[1] * a[1] + a[2] * a[2] + a[3] * a[3] + a[4] * a[4]

\* x + y of two elements, component by component
ElemAdd(a, b) == [i \in 1..Len(a) |-> a[i] + b[i]]

\* pre(): aux.x = 0; aux.y = 0
HQ_pre == [x |-> 0, y |-> 0]

\* HeavyQuarkResidualNorm_::operator(): norms of x and of y into aux
HQ_update(aux, x, y, z) ==
  [x |-> norm2_(aux.x, x), y |-> norm2_(aux.y, y)]

\* xpyHeavyQuarkResidualNorm_::operator(): norms of x + y and of z into aux
xpyHQ_update(aux, x, y, z) ==
  [x |-> norm2_(aux.x, ElemAdd(x, y)), y |-> norm2_(aux.y, z)]

\* mutant: the ratio is 0 when aux.x is not positive
HQ_post_ZeroFallback(sum, aux) ==
  Double3(RatAdd(sum.x, Rat(aux.x, 1)),
          RatAdd(sum.y, Rat(aux.y, 1)),
          RatAdd(sum.z, IF aux.x > 0 THEN Rat(aux.y, aux.x) ELSE Rat(0, 1)))

\* post(sum): the two norms and the ratio of the two accumulated sums
HQ_post(sum, aux) ==
  Double3(RatAdd(sum.x, Rat(aux.x, 1)),
          RatAdd(sum.y, Rat(aux.y, 1)),
          RatAdd(sum.z, IF aux.x > 0 THEN Rat(aux.y, aux.x) ELSE Rat(1, 1)))

\* the operands the entry point hands to reduceCuda as (x, y, z):
\* HeavyQuarkResidualNorm passes (x, r, r), xpyHeavyQuarkResidualNorm (x, y, r)
HQ_operands(fn, f) ==
  IF fn = "HeavyQuarkResidualNorm"
  THEN [x |-> f.x, y |-> f.r, z |-> f.r]
  ELSE [x |-> f.x, y |-> f.y, z |-> f.r]

\* the elements 1..j of site i through the functor, starting from pre()
RECURSIVE SiteLoop(_, _, _, _)
SiteLoop(fn, o, i, j) ==
  IF j = 0 THEN HQ_pre
  ELSE LET aux == SiteLoop(fn, o, i, j - 1)
       IN IF fn = "HeavyQuarkResidualNorm"
          THEN HQ_update(aux, o.x[i][j], o.y[i][j], o.z[i][j])
          ELSE xpyHQ_update(aux, o.x[i][j], o.y[i][j], o.z[i][j])

\* the sum over the sites 1..i: pre(), the element loop, post(sum) per site
RECURSIVE SiteSum(_, _, _)
SiteSum(fn, o, i) ==
  IF i = 0 THEN ZeroTriple
  ELSE HQ_post(SiteSum(fn, o, i - 1), SiteLoop(fn, o, i, Len(o.x[i])))

\* the local reduction of a heavy-quark call over the operand fields
LocalReduce(fn, f) ==
  LET o == HQ_operands(fn, f) IN SiteSum(fn, o, Volume(o.x))

\* the sum of two result triples
TripleAdd(p, q) ==
  Double3(RatAdd(p.x, q.x), RatAdd(p.y, q.y), RatAdd(p.z, q.z))

\* what the other processes of the communicator contribute to the sum
RemoteSums(n) ==
  IF n = 1 THEN {ZeroTriple}
  ELSE {ZeroTriple, Double3(Rat(2 * (n - 1), 1), Rat(9 * (n - 1), 1), Rat(9 * (n - 1), 2))}

\* ------------------------------------------------------------------------
\* HeavyQuarkResidualNorm(x, r) and xpyHeavyQuarkResidualNorm(x, y, r)
\* ------------------------------------------------------------------------
HQEntryPoints == {"HeavyQuarkResidualNorm", "xpyHeavyQuarkResidualNorm"}

\* mutant: the colour count is not tested
HQUnsupported_NoTest(nc) == FALSE

\* if (x.Ncolor()!=3) return make_double3(0.0, 0.0, 0.0)
HQUnsupported(nc) == nc # HQ_NCOLOR

\* mutant: the ratio is divided by the local volume alone
HQDerive_NoCommSize(r, volume, nproc) ==
  Double3(r.x, r.y, RatDivInt(r.z, volume))

\* rtn.z /= (x.Volume()*comm_size()); the other components as reduced
HQDerive(r, volume, nproc) ==
  Double3(r.x, r.y, RatDivInt(r.z, volume * nproc))

\* mutant: the call returns to the caller as soon as the kernel is launched
PcAfterLaunch_Async == "idle"

\* the host position once the kernel is launched: the call does not return
\* before the completion wait and the host read
PcAfterLaunch == "launched"

\* the kernel writes through hd_reduce: into the host buffer when that is its
\* mapped alias, into the device buffer when hd_reduce is d_reduce
WritesHostBuffer(hd, d) == hd # d

NoCombine == [local |-> ZeroTriple, remote |-> ZeroTriple, global |-> ZeroTriple]

HQCall(fn, nc) ==
  /\ ~aborted
  /\ pc = "idle"
  /\ IF HQUnsupported(nc)
     THEN /\ rtn' = ZeroTriple
          /\ call' = [fn |-> fn, ncolor |-> nc, id |-> call.id, launched |-> FALSE]
          /\ UNCHANGED <<pc, kern, combined>>
     ELSE /\ reduceLive
          /\ call.id < MaxCalls
          /\ call' = [fn |-> fn, ncolor |-> nc, id |-> call.id + 1, launched |-> TRUE]
          /\ kern' = "running"
          /\ pc' = PcAfterLaunch
          /\ combined' = NoCombine
          /\ UNCHANGED rtn
  /\ UNCHANGED <<lifeVars, aborted, dbuf, hbuf, hostReadDone, fld, commSize,
                 pureVars>>

HeavyQuarkResidualNorm ==
  \E nc \in Ncolors : HQCall("HeavyQuarkResidualNorm", nc)

xpyHeavyQuarkResidualNorm ==
  \E nc \in Ncolors : HQCall("xpyHeavyQuarkResidualNorm", nc)

\* the reduction kernel: block partials into the device buffer, the folded
\* result through hd_reduce
KernelRun ==
  /\ ~aborted
  /\ kern = "running"
  /\ LET local == LocalReduce(call.fn, fld)
     IN /\ dbuf' = Written(local, call.id)
        /\ hbuf' = IF WritesHostBuffer(hd_reduce, d_reduce)
                   THEN Written(local, call.id) ELSE hbuf
  /\ kern' = "done"
  /\ UNCHANGED <<lifeVars, aborted, pc, call, hostReadDone, combined, rtn, fld,
                 commSize, pureVars>>

\* the completion wait of the host: with mapped memory the spin on the host
\* buffer (fast reduce) or the wait on the completion event; with pinned
\* memory the synchronous device-to-host copy
CompletionVisible(fast, mappedAlias, k, hb, id) ==
  IF mappedAlias /\ fast THEN hb.tag = "data" /\ hb.by = id
  ELSE k = "done"

HostWait ==
  /\ ~aborted
  /\ pc = "launched"
  /\ CompletionVisible(fast_reduce_enabled, WritesHostBuffer(hd_reduce, d_reduce),
                       kern, hbuf, call.id)
  /\ hbuf' = IF WritesHostBuffer(hd_reduce, d_reduce) THEN hbuf ELSE dbuf
  /\ pc' = "waited"
  /\ UNCHANGED <<lifeVars, aborted, kern, call, dbuf, hostReadDone, combined,
                 rtn, fld, commSize, pureVars>>

\* the host reads the result from the host buffer
HostRead ==
  /\ ~aborted
  /\ pc = "waited"
  /\ combined' = [combined EXCEPT !.local = hbuf.val]
  /\ hostReadDone' = hostReadDone \cup {call.id}
  /\ pc' = "read"
  /\ UNCHANGED <<lifeVars, aborted, kern, call, dbuf, hbuf, rtn, fld, commSize,
                 pureVars>>

\* the sum over the processes of the communicator
Combine ==
  /\ ~aborted
  /\ pc = "read"
  /\ \E rem \in RemoteSums(commSize) :
       combined' = [combined EXCEPT !.remote = rem,
                                    !.global = TripleAdd(combined.local, rem)]
  /\ pc' = "combined"
  /\ UNCHANGED <<lifeVars, aborted, kern, call, dbuf, hbuf, hostReadDone, rtn,
                 fld, commSize, pureVars>>

\* reduceCuda has returned: the ratio is derived and the entry point returns
HQReturn ==
  /\ ~aborted
  /\ pc = "combined"
  /\ rtn' = HQDerive(combined.global, Volume(fld.x), commSize)
  /\ pc' = "idle"
  /\ UNCHANGED <<lifeVars, aborted, kern, call, dbuf, hbuf, hostReadDone,
                 combined, fld, commSize, pureVars>>

\* ------------------------------------------------------------------------
\* checkSpinor(a, b)
\* ------------------------------------------------------------------------
\* the fields checkSpinor is given: precision in bytes, length, stride
SpinorAttrs == [precision : {2, 4, 8}, length : {24, 48}, stride : {24, 32}]

\* errorQuda(fmt, va, vb): the process is aborted with the two values
Fatal(what, va, vb) == [ok |-> FALSE, what |-> what, va |-> va, vb |-> vb]

Returned == [ok |-> TRUE, what |-> "", va |-> 0, vb |-> 0]

Pending == [ok |-> FALSE, what |-> "pending", va |-> 0, vb |-> 0]

\* mutant: the stride is not compared
checkSpinor_NoStride(a, b) ==
  IF a.precision # b.precision
  THEN Fatal("precisions do not match", a.precision, b.precision)
  ELSE IF a.length # b.length
  THEN Fatal("lengths do not match", a.length, b.length)
  ELSE Returned

checkSpinor(a, b) ==
  IF a.precision # b.precision
  THEN Fatal("precisions do not match", a.precision, b.precision)
  ELSE IF a.length # b.length
  THEN Fatal("lengths do not match", a.length, b.length)
  ELSE IF a.stride # b.stride
  THEN Fatal("strides do not match", a.stride, b.stride)
  ELSE Returned

CheckSpinorCall ==
  /\ ~aborted
  /\ chk.outcome = Pending
  /\ LET res == checkSpinor(chk.a, chk.b)
     IN /\ chk' = [chk EXCEPT !.outcome = res]
        /\ aborted' = ~res.ok
  /\ UNCHANGED <<lifeVars, callVars, cap, blas, libVars>>

\* ------------------------------------------------------------------------
\* The reduction catalogue: element arithmetic
\* ------------------------------------------------------------------------
\* the operand slots of a functor, in the order of the write flags
Slots == {"x", "y", "z", "w", "v"}
SlotOrder == <<"x", "y", "z", "w", "v">>

\* s * x of a real s and an element; x - y of two elements; -a of a Float2
VScale(s, x) == [i \in 1..Len(x) |-> s * x[i]]
VSub(x, y) == [i \in 1..Len(x) |-> x[i] - y[i]]
Neg(a) == <<-a[1], -a[2]>>

\* norm1_(a): fabs of every component
norm1_(a) ==
  IF Len(a) = 2 THEN Abs(a[1]) + Abs(a[2])
  ELSE Abs(a[1]) + Abs(a[2]) + Abs(a[3]) + Abs(a[4])

\* mutant: the second component is left out of the real dot product
dot__FirstOnly(sum, a, b) == sum + a[1] * b[1]

\* dot_(sum, a, b) for a double2 / float2 element and for a float4 element
dot_(sum, a, b) ==
  IF Len(a) = 2 THEN sum + a[1] * b[1] + a[2] * b[2]
  ELSE sum + a[1] * b[1] + a[2] * b[2] + a[3] * b[3] + a[4] * b[4]

\* Caxpy_(a, x, y): y += a * x, complex-valued; the new y
Caxpy_(a, x, y) ==
  LET y1 == (y[1] + a[1] * x[1]) - a[2] * x[2]
      y2 == (y[2] + a[2] * x[1]) + a[1] * x[2]
  IN IF Len(x) = 2 THEN <<y1, y2>>
     ELSE <<y1, y2, (y[3] + a[1] * x[3]) - a[2] * x[4],
                    (y[4] + a[2] * x[3]) + a[1] * x[4]>>

\* mutant: the last term of the imaginary part is added
cdot__PlusIm(sum, a, b) ==
  LET re2 == (sum[1] + a[1] * b[1]) + a[2] * b[2]
      im2 == (sum[2] + a[1] * b[2]) + a[2] * b[1]
  IN IF Len(a) = 2 THEN [sum EXCEPT ![1] = re2, ![2] = im2]
     ELSE [sum EXCEPT ![1] = (re2 + a[3] * b[3]) + a[4] * b[4],
                      ![2] = (im2 + a[3] * b[4]) + a[4] * b[3]]

\* cdot_(sum, a, b): the complex dot product into sum.x (real part) and
\* sum.y (imaginary part)
cdot_(sum, a, b) ==
  LET re2 == (sum[1] + a[1] * b[1]) + a[2] * b[2]
      im2 == (sum[2] + a[1] * b[2]) - a[2] * b[1]
  IN IF Len(a) = 2 THEN [sum EXCEPT ![1] = re2, ![2] = im2]
     ELSE [sum EXCEPT ![1] = (re2 + a[3] * b[3]) + a[4] * b[4],
                      ![2] = (im2 + a[3] * b[4]) - a[4] * b[3]]

\* cdotNormA_(sum, a, b): cdot_ and the norm of a into sum.z
cdotNormA_(sum, a, b) ==
  LET s == cdot_(sum, a, b) IN [s EXCEPT ![3] = norm2_(@, a)]

\* cdotNormB_(sum, a, b): cdot_ and the norm of b into sum.z
cdotNormB_(sum, a, b) ==
  LET s == cdot_(sum, a, b) IN [s EXCEPT ![3] = norm2_(@, b)]

\* ------------------------------------------------------------------------
\* The reduction catalogue: the update functors. r holds the running sum
\* (components x, y, z, w as sum[1..4]) and the elements of the five slots;
\* the value is r after operator()(sum, x, y, z, w, v)
\* ------------------------------------------------------------------------
Norm1(a, b, r) == [r EXCEPT !.sum[1] = @ + norm1_(r.x)]

Norm2(a, b, r) == [r EXCEPT !.sum[1] = norm2_(@, r.x)]

Dot(a, b, r) == [r EXCEPT !.sum[1] = dot_(@, r.x, r.y)]

\* mutant: the norm of y is accumulated, as the comment of the functor says
axpbyzNorm2_NormOfY(a, b, r) ==
  LET z == ElemAdd(VScale(a[1], r.x), VScale(b[1], r.y))
  IN [r EXCEPT !.z = z, !.sum[1] = norm2_(@, r.y)]

\* z = a.x*x + b.x*y; norm2_(sum, z)
axpbyzNorm2(a, b, r) ==
  LET z == ElemAdd(VScale(a[1], r.x), VScale(b[1], r.y))
  IN [r EXCEPT !.z = z, !.sum[1] = norm2_(@, z)]

\* y += a.x*x; dot_(sum, x, y)
AxpyReDot(a, b, r) ==
  LET y == ElemAdd(r.y, VScale(a[1], r.x))
  IN [r EXCEPT !.y = y, !.sum[1] = dot_(@, r.x, y)]

\* Caxpy_(a, x, y); norm2_(sum, y)
caxpyNorm2(a, b, r) ==
  LET y == Caxpy_(a, r.x, r.y)
  IN [r EXCEPT !.y = y, !.sum[1] = norm2_(@, y)]

\* Caxpy_(a, x, y); Caxpy_(-a, z, x); norm2_(sum, x)
caxpyxmaznormx(a, b, r) ==
  LET y == Caxpy_(a, r.x, r.y)
      x == Caxpy_(Neg(a), r.z, r.x)
  IN [r EXCEPT !.y = y, !.x = x, !.sum[1] = norm2_(@, x)]

\* mutant: b multiplies the x that was loaded, not the scaled x
cabxpyzaxnorm_Unscaled(a, b, r) ==
  LET x == VScale(a[1], r.x)
      y == Caxpy_(b, r.x, r.y)
  IN [r EXCEPT !.x = x, !.y = y, !.z = y, !.sum[1] = norm2_(@, y)]

\* x *= a.x; Caxpy_(b, x, y); z = y; norm2_(sum, z)
cabxpyzaxnorm(a, b, r) ==
  LET x == VScale(a[1], r.x)
      y == Caxpy_(b, x, r.y)
  IN [r EXCEPT !.x = x, !.y = y, !.z = y, !.sum[1] = norm2_(@, y)]

Cdot(a, b, r) == [r EXCEPT !.sum = cdot_(@, r.x, r.y)]

\* Caxpy_(a, x, y); cdot_(sum, z, y)
caxpydotzy(a, b, r) ==
  LET y == Caxpy_(a, r.x, r.y)
  IN [r EXCEPT !.y = y, !.sum = cdot_(@, r.z, y)]

CdotNormA(a, b, r) == [r EXCEPT !.sum = cdotNormA_(@, r.x, r.y)]

\* mutant: y is updated before it is added to z
caxpbypzYmbwcDotProductUYNormY__YFirst(a, b, r) ==
  LET y == Caxpy_(Neg(b), r.w, r.y)
      z1 == Caxpy_(a, r.x, r.z)
      z2 == Caxpy_(b, y, z1)
  IN [r EXCEPT !.z = z2, !.y = y, !.sum = cdotNormB_(@, r.v, y)]

\* Caxpy_(a, x, z); Caxpy_(b, y, z); Caxpy_(-b, w, y); cdotNormB_(sum, v, y)
caxpbypzYmbwcDotProductUYNormY_(a, b, r) ==
  LET z1 == Caxpy_(a, r.x, r.z)
      z2 == Caxpy_(b, r.y, z1)
      y == Caxpy_(Neg(b), r.w, r.y)
  IN [r EXCEPT !.z = z2, !.y = y, !.sum = cdotNormB_(@, r.v, y)]

\* mutant: the second component is the dot product with the old z
axpyCGNorm2_DotOldZ(a, b, r) ==
  LET z_new == ElemAdd(r.z, VScale(a[1], r.x))
  IN [r EXCEPT !.sum[1] = norm2_(@, z_new),
               !.sum[2] = dot_(@, z_new, r.z),
               !.z = z_new]

\* z_new = z + a.x*x; norm2_(sum.x, z_new); dot_(sum.y, z_new, z_new-z);
\* z = z_new
axpyCGNorm2(a, b, r) ==
  LET z_new == ElemAdd(r.z, VScale(a[1], r.x))
  IN [r EXCEPT !.sum[1] = norm2_(@, z_new),
               !.sum[2] = dot_(@, z_new, VSub(z_new, r.z)),
               !.z = z_new]

\* HeavyQuarkResidualNorm_ and xpyHeavyQuarkResidualNorm_: operator()
\* accumulates into aux (HQ_update, xpyHQ_update) and touches neither the sum
\* nor an operand
HeavyQuarkResidualNorm_(a, b, r) == r

xpyHeavyQuarkResidualNorm_(a, b, r) == r

\* norm2_(sum.x, x); norm2_(sum.y, y); dot_(sum.z, y, z)
tripleCGReduction_(a, b, r) ==
  [r EXCEPT !.sum[1] = norm2_(@, r.x), !.sum[2] = norm2_(@, r.y),
            !.sum[3] = dot_(@, r.y, r.z)]

\* the same and norm2_(sum.w, w)
quadrupleCGReduction_(a, b, r) ==
  [r EXCEPT !.sum[1] = norm2_(@, r.x), !.sum[2] = norm2_(@, r.y),
            !.sum[3] = dot_(@, r.y, r.z), !.sum[4] = norm2_(@, r.w)]

\* z = x; w = y; x += a.x*y; y -= a.x*v; norm2_(sum, y)
quadrupleCG3InitNorm_(a, b, r) ==
  LET x == ElemAdd(r.x, VScale(a[1], r.y))
      y == VSub(r.y, VScale(a[1], r.v))
  IN [r EXCEPT !.z = r.x, !.w = r.y, !.x = x, !.y = y,
               !.sum[1] = norm2_(@, y)]

\* mutant: z and w receive the updated x and y, not the saved tmpx and tmpy
quadrupleCG3UpdateNorm__NoTmp(a, b, r) ==
  LET x == ElemAdd(VScale(b[1], ElemAdd(r.x, VScale(a[1], r.y))),
                   VScale(b[2], r.z))
      y == ElemAdd(VScale(b[1], VSub(r.y, VScale(a[1], r.v))),
                   VScale(b[2], r.w))
  IN [r EXCEPT !.x = x, !.y = y, !.z = x, !.w = y,
               !.sum[1] = norm2_(@, y)]

\* tmpx = x; tmpy = y; x = b.x*(x + a.x*y) + b.y*z;
\* y = b.x*(y - a.x*v) + b.y*w; z = tmpx; w = tmpy; norm2_(sum, y)
quadrupleCG3UpdateNorm_(a, b, r) ==
  LET x == ElemAdd(VScale(b[1], ElemAdd(r.x, VScale(a[1], r.y))),
                   VScale(b[2], r.z))
      y == ElemAdd(VScale(b[1], VSub(r.y, VScale(a[1], r.v))),
                   VScale(b[2], r.w))
  IN [r EXCEPT !.x = x, !.y = y, !.z = r.x, !.w = r.y,
               !.sum[1] = norm2_(@, y)]

\* y = x; x -= a.x*z; norm2_(sum, x)
doubleCG3InitNorm_(a, b, r) ==
  LET x == VSub(r.x, VScale(a[1], r.z))
  IN [r EXCEPT !.y = r.x, !.x = x, !.sum[1] = norm2_(@, x)]

\* tmp = x; x = b.x*(x - a.x*z) + b.y*y; y = tmp; norm2_(sum, x)
doubleCG3UpdateNorm_(a, b, r) ==
  LET x == ElemAdd(VScale(b[1], VSub(r.x, VScale(a[1], r.z))),
                   VScale(b[2], r.y))
  IN [r EXCEPT !.x = x, !.y = r.x, !.sum[1] = norm2_(@, x)]

\* operator() of the functor an entry point instantiates
ApplyFunctor(f, a, b, r) ==
  CASE f = "Norm1" -> Norm1(a, b, r)
    [] f = "Norm2" -> Norm2(a, b, r)
    [] f = "Dot" -> Dot(a, b, r)
    [] f = "axpbyzNorm2" -> axpbyzNorm2(a, b, r)
    [] f = "AxpyReDot" -> AxpyReDot(a, b, r)
    [] f = "caxpyNorm2" -> caxpyNorm2(a, b, r)
    [] f = "caxpyxmaznormx" -> caxpyxmaznormx(a, b, r)
    [] f = "cabxpyzaxnorm" -> cabxpyzaxnorm(a, b, r)
    [] f = "Cdot" -> Cdot(a, b, r)
    [] f = "caxpydotzy" -> caxpydotzy(a, b, r)
    [] f = "CdotNormA" -> CdotNormA(a, b, r)
    [] f = "caxpbypzYmbwcDotProductUYNormY_" ->
         caxpbypzYmbwcDotProductUYNormY_(a, b, r)
    [] f = "axpyCGNorm2" -> axpyCGNorm2(a, b, r)
    [] f = "HeavyQuarkResidualNorm_" -> HeavyQuarkResidualNorm_(a, b, r)
    [] f = "xpyHeavyQuarkResidualNorm_" -> xpyHeavyQuarkResidualNorm_(a, b, r)
    [] f = "tripleCGReduction_" -> tripleCGReduction_(a, b, r)
    [] f = "quadrupleCGReduction_" -> quadrupleCGReduction_(a, b, r)
    [] f = "quadrupleCG3InitNorm_" -> quadrupleCG3InitNorm_(a, b, r)
    [] f = "quadrupleCG3UpdateNorm_" -> quadrupleCG3UpdateNorm_(a, b, r)
    [] f = "doubleCG3InitNorm_" -> doubleCG3InitNorm_(a, b, r)
    [] f = "doubleCG3UpdateNorm_" -> doubleCG3UpdateNorm_(a, b, r)

\* ------------------------------------------------------------------------
\* The reduction catalogue: the entry points
\* ------------------------------------------------------------------------
\* one entry point: the functor it instantiates, the slots whose write flag
\* it sets, the slots operator() assigns, the width of the result, the field
\* it passes in each slot (its arguments named x, y, z, w, u in order), how it
\* passes the coefficients a and b, and the two arguments whose precisions
\* select the mixed-precision dispatcher
Row(functor, write, assigns, width, slots, ca, cb, mixed) ==
  [functor |-> functor, write |-> write, assigns |-> assigns, width |-> width,
   slots |-> [i \in 1..5 |-> slots[i]], a |-> ca, b |-> cb, mixed |-> mixed]

Catalog ==
  [norm1 |-> Row("Norm1", {}, {}, 1, <<"x", "x", "x", "x", "x">>,
                 "none", "none", <<>>),
   norm2 |-> Row("Norm2", {}, {}, 1, <<"x", "x", "x", "x", "x">>,
                 "none", "none", <<>>),
   reDotProduct |-> Row("Dot", {}, {}, 1, <<"x", "y", "x", "x", "x">>,
                        "none", "none", <<>>),
   axpbyzNorm |-> Row("axpbyzNorm2", {"z"}, {"z"}, 1,
                      <<"x", "y", "z", "x", "x">>, "real", "real", <<>>),
   axpyReDot |-> Row("AxpyReDot", {"y"}, {"y"}, 1,
                     <<"x", "y", "x", "x", "x">>, "real", "none", <<>>),
   caxpyNorm |-> Row("caxpyNorm2", {"y"}, {"y"}, 1,
                     <<"x", "y", "x", "x", "x">>, "complex", "none", <<>>),
   caxpyXmazNormX |-> Row("caxpyxmaznormx", {"x", "y"}, {"x", "y"}, 1,
                          <<"x", "y", "z", "x", "x">>, "complex", "none", <<>>),
   cabxpyzAxNorm |-> Row("cabxpyzaxnorm", {"x", "z"}, {"x", "y", "z"}, 1,
                         <<"x", "y", "z", "x", "x">>, "real", "complex", <<>>),
   cDotProduct |-> Row("Cdot", {}, {}, 2, <<"x", "y", "x", "x", "x">>,
                       "none", "none", <<>>),
   caxpyDotzy |-> Row("caxpydotzy", {"y"}, {"y"}, 2,
                      <<"x", "y", "z", "x", "x">>, "complex", "none", <<>>),
   cDotProductNormA |-> Row("CdotNormA", {}, {}, 3,
                            <<"x", "y", "x", "x", "x">>, "none", "none", <<>>),
   caxpbypzYmbwcDotProductUYNormY |->
     Row("caxpbypzYmbwcDotProductUYNormY_", {"y", "z"}, {"y", "z"}, 3,
         <<"x", "y", "z", "w", "u">>, "complex", "complex", <<"x", "z">>),
   axpyCGNorm |-> Row("axpyCGNorm2", {"z"}, {"z"}, 2,
                      <<"x", "x", "y", "x", "x">>, "real", "none", <<"x", "y">>),
   HeavyQuarkResidualNorm |->
     Row("HeavyQuarkResidualNorm_", {}, {}, 3, <<"x", "y", "y", "y", "y">>,
         "none", "none", <<>>),
   xpyHeavyQuarkResidualNorm |->
     Row("xpyHeavyQuarkResidualNorm_", {}, {}, 3, <<"x", "y", "z", "z", "z">>,
         "none", "none", <<>>),
   tripleCGReduction |-> Row("tripleCGReduction_", {}, {}, 3,
                             <<"x", "y", "z", "x", "x">>, "none", "none", <<>>),
   quadrupleCGReduction |-> Row("quadrupleCGReduction_", {}, {}, 4,
                                <<"x", "y", "z", "x", "x">>, "none", "none", <<>>),
   quadrupleCG3InitNorm |->
     Row("quadrupleCG3InitNorm_", {"x", "y", "z", "w"}, {"x", "y", "z", "w"}, 1,
         <<"x", "y", "z", "w", "u">>, "real", "none", <<>>),
   quadrupleCG3UpdateNorm |->
     Row("quadrupleCG3UpdateNorm_", {"x", "y", "z", "w"}, {"x", "y", "z", "w"}, 1,
         <<"x", "y", "z", "w", "u">>, "real", "oneMinus", <<>>),
   doubleCG3InitNorm |-> Row("doubleCG3InitNorm_", {"x", "y"}, {"x", "y"}, 1,
                             <<"x", "y", "z", "z", "z">>, "real", "none", <<>>),
   doubleCG3UpdateNorm |-> Row("doubleCG3UpdateNorm_", {"x", "y"}, {"x", "y"}, 1,
                               <<"x", "y", "z", "z", "z">>, "real", "oneMinus", <<>>)]

EntryPoints == DOMAIN Catalog

\* the field an entry point passes in a slot
SlotField(fn, s) ==
  Catalog[fn].slots[CHOOSE i \in 1..5 : SlotOrder[i] = s]

\* mutant: cabxpyzAxNorm also sets the write flag of y
WriteFlags_CabxY(fn) ==
  IF fn = "cabxpyzAxNorm" THEN {"x", "y", "z"} ELSE Catalog[fn].write

\* mutant: every entry point sets the write flag of y
WriteFlags_AllY(fn) == Catalog[fn].write \cup {"y"}

\* the slots whose write flag the entry point sets in its dispatch
WriteFlags(fn) == Catalog[fn].write

\* the slots operator() of the entry point's functor assigns
Assigns(fn) == Catalog[fn].assigns

\* make_double2(0.0, 0.0), make_double2(a, 0.0),
\* make_double2(REAL(a), IMAG(a)), make_double2(b, 1.-b)
PassCoeff(kind, c) ==
  CASE kind = "none" -> <<0, 0>>
    [] kind = "real" -> <<c[1], 0>>
    [] kind = "complex" -> c
    [] kind = "oneMinus" -> <<c[1], 1 - c[1]>>

\* mutant: the uniform dispatcher is instantiated whatever the precisions
UsesMixed_Never(fn, prec) == FALSE

\* if (x.Precision() != z.Precision()) reduce::mixed::reduceCuda: the
\* mixed-precision dispatcher is selected
UsesMixed(fn, prec) ==
  /\ Catalog[fn].mixed # <<>>
  /\ prec[Catalog[fn].mixed[1]] # prec[Catalog[fn].mixed[2]]

\* what checkSpinor sees of a field
FieldAttrs(st, prec, f) ==
  [precision |-> prec[f],
   length |-> Len(st[f]) * Len(st[f][1]) * Len(st[f][1][1]),
   stride |-> Len(st[f]) * Len(st[f][1])]

\* the compatibility check before the dispatch: every slot against slot x,
\* the precision of slot z set apart by the mixed-precision dispatcher
OperandsCompatible(fn, st, prec, mixed) ==
  \A s \in Slots \ {"x"} :
    LET fx == FieldAttrs(st, prec, SlotField(fn, "x"))
        fs == FieldAttrs(st, prec, SlotField(fn, s))
    IN checkSpinor(fx, IF mixed /\ s = "z"
                       THEN [fs EXCEPT !.precision = fx.precision]
                       ELSE fs).ok

\* ------------------------------------------------------------------------
\* The generic dispatcher: the loop over the elements of the fields
\* ------------------------------------------------------------------------
\* the running sum and the elements of the five slots at site i, position j
LoadElems(sum, st, fn, i, j) ==
  [sum |-> sum,
   x |-> st[SlotField(fn, "x")][i][j], y |-> st[SlotField(fn, "y")][i][j],
   z |-> st[SlotField(fn, "z")][i][j], w |-> st[SlotField(fn, "w")][i][j],
   v |-> st[SlotField(fn, "v")][i][j]]

\* the first k slots stored back in slot order: a slot reaches its field
\* only when its write flag is set
RECURSIVE StoreElems(_, _, _, _, _, _)
StoreElems(st, fn, i, j, r, k) ==
  IF k = 0 THEN st
  ELSE LET st1 == StoreElems(st, fn, i, j, r, k - 1)
           s == SlotOrder[k]
       IN IF s \in WriteFlags(fn)
          THEN [st1 EXCEPT ![SlotField(fn, s)][i][j] = r[s]]
          ELSE st1

\* the first n elements of the fields through the functor: the sum, the
\* fields, and the slots whose element operator() changed
RECURSIVE ReduceLoop(_, _, _, _, _)
ReduceLoop(fn, a, b, st, n) ==
  IF n = 0 THEN [sum |-> <<0, 0, 0, 0>>, st |-> st, mutated |-> {}]
  ELSE LET prev == ReduceLoop(fn, a, b, st, n - 1)
           M == Len(st.x[1])
           i == ((n - 1) \div M) + 1
           j == ((n - 1) % M) + 1
           r0 == LoadElems(prev.sum, prev.st, fn, i, j)
           r1 == ApplyFunctor(Catalog[fn].functor, a, b, r0)
       IN [sum |-> r1.sum,
           st |-> StoreElems(prev.st, fn, i, j, r1, 5),
           mutated |-> prev.mutated \cup {s \in Slots : r1[s] # r0[s]}]

\* the functors that override pre() and post() of ReduceFunctor; every other
\* functor inherits the empty hooks
HookOverrides == {"HeavyQuarkResidualNorm_", "xpyHeavyQuarkResidualNorm_"}

\* the outcome of a call of an entry point
CallDone(fn, nc, path, out, ret, mutated) ==
  [fn |-> fn, ncolor |-> nc, path |-> path, out |-> out, ret |-> ret,
   mutated |-> mutated]

\* a call of entry point fn on the fields st with the coefficients a and b
ReduceCall(fn, nc, a, b, st, prec, nproc) ==
  IF fn \in HQEntryPoints /\ HQUnsupported(nc)
  THEN CallDone(fn, nc, "none", st, ZeroTriple, {})
  ELSE LET mixed == UsesMixed(fn, prec)
       IN IF ~OperandsCompatible(fn, st, prec, mixed)
          THEN CallDone(fn, nc, "fatal", st, <<>>, {})
          ELSE LET run == ReduceLoop(fn, PassCoeff(Catalog[fn].a, a),
                                     PassCoeff(Catalog[fn].b, b), st,
                                     Len(st.x) * Len(st.x[1]))
                   f == [x |-> st[Catalog[fn].slots[1]],
                         y |-> st[Catalog[fn].slots[2]],
                         r |-> st[Catalog[fn].slots[3]]]
                   hooked == Catalog[fn].functor \in HookOverrides
               IN CallDone(fn, nc, IF mixed THEN "mixed" ELSE "uniform", run.st,
                           IF fn \in HQEntryPoints /\ hooked
                           THEN HQDerive(LocalReduce(fn, f), Volume(st.x), nproc)
                           ELSE SubSeq(run.sum, 1, Catalog[fn].width),
                           run.mutated)

\* no entry point has been called
NoBlas == [a |-> <<0, 0>>, b |-> <<0, 0>>,
           in |-> [x |-> <<SiteA>>, y |-> <<SiteA>>, z |-> <<SiteA>>,
                   w |-> <<SiteA>>, u |-> <<SiteA>>],
           prec |-> [x |-> 8, y |-> 8, z |-> 8, w |-> 8, u |-> 8],
           fn |-> "none", ncolor |-> HQ_NCOLOR, path |-> "none",
           out |-> [x |-> <<SiteA>>, y |-> <<SiteA>>, z |-> <<SiteA>>,
                    w |-> <<SiteA>>, u |-> <<SiteA>>],
           ret |-> <<>>, mutated |-> {}]

\* the application calls an entry point of the catalogue on its fields
ReductionCall(fn, nc) ==
  /\ ~aborted
  /\ blas.fn = "none"
  /\ fn \notin HQEntryPoints => nc = HQ_NCOLOR
  /\ LET res == ReduceCall(fn, nc, blas.a, blas.b, blas.in, blas.prec, commSize)
     IN /\ blas' = [blas EXCEPT !.fn = res.fn, !.ncolor = res.ncolor,
                                !.path = res.path, !.out = res.out,
                                !.ret = res.ret, !.mutated = res.mutated]
        /\ aborted' = (res.path = "fatal")
  /\ UNCHANGED <<lifeVars, callVars, chk, cap, libVars>>

\* the sites of the fields explored: four sites of double2 elements and
\* four sites of float4 elements
Sites2 == <<SiteA, SiteB, << <<-2, 1>>, <<3, -1>> >>, << <<0, 2>>, <<1, 1>> >> >>
Sites4 == << << <<1, 0, 0, 1>>, <<1, 2, -1, 0>> >>,
             << <<0, 1, 2, 2>>, <<-2, 1, 1, -1>> >>,
             << <<3, -1, 0, 2>>, <<1, 1, 1, 0>> >>,
             << <<0, 2, -1, 1>>, <<2, 0, 1, 3>> >> >>

\* the field of a given volume whose sites are all s
ConstField(v, s) == [i \in 1..v |-> s]

\* the fields x, y, z, w, u an application holds, built from four sites
BlasStores(s) ==
  UNION { [x : PrefixFields(v, s[1], s[2]),
           y : {ConstField(v, s[2]), ConstField(v, s[3])},
           z : {ConstField(v, s[3])},
           w : {ConstField(v, s[4])},
           u : {ConstField(v, s[1]), ConstField(v, s[4])}] : v \in 1..MaxVolume }

\* the precisions of the fields (bytes per real number): x, w and u alike
Precisions(px, py, pz) == [x |-> px, y |-> py, z |-> pz, w |-> px, u |-> px]

\* double2 fields, single precision fields with z or y in double precision,
\* and float4 fields
BlasFields ==
  ({Precisions(8, 8, 8), Precisions(4, 4, 8), Precisions(4, 8, 4)}
     \X BlasStores(Sites2))
  \cup ({Precisions(4, 4, 4)} \X BlasStores(Sites4))

\* the coefficients a and b of a call
BlasCoeffs == {<<2, 0>>, <<1, 1>>, <<0, -1>>} \X {<<1, 0>>, <<-1, 2>>}

\* ------------------------------------------------------------------------
\* BlockOrthogonalize (block_orthogonalize.cu)
\* ------------------------------------------------------------------------
\* the outcome of a call: "kernel" (launched from the instantiation inst),
\* "fatal" (errorQuda(msg) at a stage of the dispatch) or "ill-formed" (the
\* file does not compile in this build); scaled: V.Scale(1.0) was executed
OrthoResult(kind, stage, msg, scaled, inst) ==
  [kind |-> kind, stage |-> stage, msg |-> msg, scaled |-> scaled,
   inst |-> inst]

\* BlockOrtho::apply: the field location and the field orders of V and B[0]
\* select the CPU or the GPU kernel
apply(build, V, B) ==
  IF V.location = "CPU"
  THEN IF V.order = "SPACE_SPIN_COLOR" /\ B.order = "SPACE_SPIN_COLOR"
       THEN "blockOrthoCPU" ELSE "Unsupported field order"
  ELSE IF ~build.cc300
       THEN "GPU block orthogonalization not supported on this GPU architecture"
       ELSE IF V.order = "FLOAT2" /\ B.order = "FLOAT2"
            THEN "blockOrthoGPU" ELSE "Unsupported field order V B"

\* BlockOrthogonalize<vFloat,bFloat,nSpin,spinBlockSize,nColor,nVec>:
\* V.Scale(1.0), the constructor of BlockOrtho (a fixed-point bFloat supports
\* 3 colours only), apply
BlockOrthogonalize6(build, V, B, t) ==
  LET nColor == IF t.bFloat = "short" THEN 3 ELSE t.nColor
      k == apply(build, V, B)
  IN IF t.nColor # nColor
     THEN OrthoResult("fatal", "constructor",
                      "Number of colors not supported with this precision",
                      TRUE, <<>>)
     ELSE IF k \in {"blockOrthoCPU", "blockOrthoGPU"}
          THEN OrthoResult("kernel", k, "", TRUE, [t EXCEPT !.nColor = nColor])
          ELSE OrthoResult("fatal", "apply", k, TRUE, <<>>)

\* BlockOrthogonalize<vFloat,bFloat,nSpin,spinBlockSize>: Nvec = B.size(),
\* nColor from the int quotient V.Ncolor()/Nvec, nVec from Nvec
BlockOrthogonalize4(build, V, B, t) ==
  LET Nvec == B.size
      q == V.Ncolor \div Nvec
      nVecs == CASE q = 3 -> {6, 24, 32, 48}
                 [] q = 6 -> {6}
                 [] q = 24 -> {24, 32}
                 [] q = 32 -> {32}
                 [] OTHER -> {}
  IN IF q \notin {3, 6, 24, 32}
     THEN OrthoResult("fatal", "colour", "Unsupported nColor", FALSE, <<>>)
     ELSE IF Nvec \notin nVecs
          THEN OrthoResult("fatal", "colour", "Unsupported nVec", FALSE, <<>>)
          ELSE BlockOrthogonalize6(build, V, B,
                 [vFloat |-> t.vFloat, bFloat |-> t.bFloat, nSpin |-> t.nSpin,
                  spinBlockSize |-> t.spinBlockSize, nColor |-> q,
                  nVec |-> Nvec])

\* BlockOrthogonalize<vFloat,bFloat>: nSpin and spinBlockSize from V.Nspin()
\* and spin_bs, the Wilson and the staggered branches as the build has them
BlockOrthogonalize2(build, V, B, spin_bs, vFloat, bFloat) ==
  LET t == [vFloat |-> vFloat, bFloat |-> bFloat, nSpin |-> V.Nspin,
            spinBlockSize |-> spin_bs]
  IN IF \/ V.Nspin = 2 /\ spin_bs = 1
        \/ build.wilson /\ V.Nspin = 4 /\ spin_bs = 2
        \/ build.staggered /\ V.Nspin = 1 /\ spin_bs \in {0, 1}
     THEN BlockOrthogonalize4(build, V, B, t)
     ELSE OrthoResult("fatal", "spin",
                      "Unsupported nSpin and spinBlockSize combination",
                      FALSE, <<>>)

\* BlockOrthogonalize(V, B, fine_to_coarse, coarse_to_fine, geo_bs, spin_bs):
\* the instantiation from V.Precision() and B[0]->Precision(). With
\* GPU_MULTIGRID_DOUBLE the double branch names BlockOrthogonalize<double>,
\* for which bFloat cannot be deduced, so the file does not compile
BlockOrthogonalize(build, V, B, spin_bs) ==
  IF ~build.multigrid
  THEN OrthoResult("fatal", "precision", "Multigrid has not been built",
                   FALSE, <<>>)
  ELSE IF build.multigridDouble
  THEN OrthoResult("ill-formed", "compile",
                   "no matching function for call to BlockOrthogonalize<double>",
                   FALSE, <<>>)
  ELSE IF V.Precision = 8 /\ B.Precision = 8
  THEN OrthoResult("fatal", "precision",
                   "Double precision multigrid has not been enabled",
                   FALSE, <<>>)
  ELSE IF V.Precision = 4 /\ B.Precision = 4
  THEN BlockOrthogonalize2(build, V, B, spin_bs, "float", "float")
  ELSE IF V.Precision = 2 /\ B.Precision = 4
  THEN BlockOrthogonalize2(build, V, B, spin_bs, "short", "float")
  ELSE IF V.Precision = 2 /\ B.Precision = 2
  THEN BlockOrthogonalize2(build, V, B, spin_bs, "short", "short")
  ELSE OrthoResult("fatal", "precision", "Unsupported precision combination",
                   FALSE, <<>>)

\* the state of the library components before any call: a BlockOrthogonalize
\* call to come (build and device, V, B[0] and B.size(), spin_bs) and the
\* TuneParam of its BlockOrtho object
NoLib ==
  [ortho |->
     [build |-> [multigrid |-> FALSE, multigridDouble |-> FALSE,
                 wilson |-> TRUE, staggered |-> TRUE, cc300 |-> TRUE,
                 swizzle |-> FALSE, multiProcessorCount |-> 1],
      V |-> [Precision |-> 4, Ncolor |-> 18, Nspin |-> 4, location |-> "CUDA",
             order |-> "FLOAT2"],
      B |-> [Precision |-> 4, size |-> 6, order |-> "FLOAT2"],
      spin_bs |-> 2,
      res |-> OrthoResult("pending", "", "", FALSE, <<>>)],
   tp |-> [state |-> "none", aux_x |-> 0, ret |-> TRUE, auxCalled |-> FALSE,
           before |-> 0, advances |-> 0, advancesBefore |-> 0],
   \* a prepare() call to come: the operator and its matpcType, solType, the
   \* caller's pointer variables passed as src and sol, the callee's
   \* parameters src and sol, and what the two parities of x hold
   dirac |-> [op |-> "none", matpcType |-> "QUDA_MATPC_EVEN_EVEN",
              solType |-> "QUDA_MAT_SOLUTION",
              caller |-> [src |-> "nullptr", sol |-> "nullptr"],
              param |-> [src |-> "nullptr", sol |-> "nullptr"],
              x |-> [Even |-> <<"x_e">>, Odd |-> <<"x_o">>],
              state |-> "pending"],
   \* no kernel launched: param.threads, blockDim, gridDim.x, blockIdx.x and
   \* no thread
   tc |-> [threads |-> 0, blockDim |-> [x |-> 32, y |-> 12], gridDim_x |-> 1,
           blockIdx_x |-> 0, hung |-> FALSE, thread |-> <<>>]]

\* the calls explored. Builds and devices: GPU_MULTIGRID,
\* GPU_MULTIGRID_DOUBLE, GPU_WILSON_DIRAC, GPU_STAGGERED_DIRAC,
\* __COMPUTE_CAPABILITY__ >= 300, SWIZZLE, deviceProp.multiProcessorCount.
\* Fields: V.Precision() and B[0]->Precision() (8, 4, 2 bytes),
\* (V.Ncolor(), B.size()) with the supported products and colour counts that
\* are not the product of a supported pair, (V.Nspin(), spin_bs), and
\* (V.Location(), V.FieldOrder(), B[0]->FieldOrder())
OrthoCalls ==
  LET Build(mg, dbl, wilson, staggered, cc300, swizzle, sm) ==
        [multigrid |-> mg, multigridDouble |-> dbl, wilson |-> wilson,
         staggered |-> staggered, cc300 |-> cc300, swizzle |-> swizzle,
         multiProcessorCount |-> sm]
      Builds == {Build(FALSE, FALSE, TRUE, TRUE, TRUE, FALSE, 1),
                 Build(TRUE, FALSE, TRUE, FALSE, TRUE, TRUE, 1),
                 Build(TRUE, FALSE, TRUE, TRUE, TRUE, TRUE, 3),
                 Build(TRUE, FALSE, TRUE, TRUE, TRUE, FALSE, 2),
                 Build(TRUE, FALSE, FALSE, TRUE, FALSE, FALSE, 2),
                 Build(TRUE, TRUE, TRUE, TRUE, TRUE, TRUE, 2)}
      Colours == {<<18, 6>>, <<72, 24>>, <<96, 32>>, <<144, 48>>, <<36, 6>>,
                  <<576, 24>>, <<768, 32>>, <<1024, 32>>, <<19, 6>>, <<20, 6>>,
                  <<12, 6>>, <<24, 24>>, <<30, 10>>, <<600, 24>>, <<590, 24>>,
                  <<192, 32>>}
      Spins == {<<2, 1>>, <<4, 2>>, <<1, 0>>, <<1, 1>>, <<4, 1>>}
      Layouts == {<<"CUDA", "FLOAT2", "FLOAT2">>, <<"CUDA", "FLOAT2", "FLOAT4">>,
                  <<"CPU", "SPACE_SPIN_COLOR", "SPACE_SPIN_COLOR">>,
                  <<"CPU", "FLOAT2", "FLOAT2">>}
  IN {[NoLib.ortho EXCEPT
         !.build = b,
         !.V = [Precision |-> vp, Ncolor |-> c[1], Nspin |-> s[1],
                location |-> l[1], order |-> l[2]],
         !.B = [Precision |-> bp, size |-> c[2], order |-> l[3]],
         !.spin_bs = s[2]] :
       b \in Builds, vp \in {8, 4, 2}, bp \in {8, 4, 2}, c \in Colours,
       s \in Spins, l \in Layouts}

\* the application calls BlockOrthogonalize
BlockOrthogonalizeCall ==
  /\ ~aborted
  /\ ortho.res.kind = "pending"
  /\ LET res == BlockOrthogonalize(ortho.build, ortho.V, ortho.B, ortho.spin_bs)
     IN /\ ortho' = [ortho EXCEPT !.res = res]
        /\ aborted' = (res.kind # "kernel")
  /\ UNCHANGED <<lifeVars, callVars, chk, cap, blas, tp, dirac, tc>>

\* mutant: the swizzle factor is advanced while aux.x <= 2 x count
advanceAux_Inclusive(build, x) ==
  IF build.swizzle
  THEN IF x <= 2 * build.multiProcessorCount
       THEN [aux_x |-> x + 1, ret |-> TRUE]
       ELSE [aux_x |-> 1, ret |-> FALSE]
  ELSE [aux_x |-> x, ret |-> FALSE]

\* BlockOrtho::advanceAux(param): the new param.aux.x and the value returned
advanceAux(build, x) ==
  IF build.swizzle
  THEN IF x < 2 * build.multiProcessorCount
       THEN [aux_x |-> x + 1, ret |-> TRUE]
       ELSE [aux_x |-> 1, ret |-> FALSE]
  ELSE [aux_x |-> x, ret |-> FALSE]

\* the tuner starts a sweep on the BlockOrtho object of the call:
\* initTuneParam(param) is defaultTuneParam(param), param.aux.x = 1
defaultTuneParam ==
  /\ ~aborted
  /\ ortho.res.kind = "kernel"
  /\ tp.state = "none"
  /\ tp' = [tp EXCEPT !.state = "tuning", !.aux_x = 1]
  /\ UNCHANGED <<lifeVars, aborted, callVars, chk, cap, blas, ortho, dirac,
               tc>>

\* the tuner calls advanceTuneParam(param) until it returns false: for a
\* device field advanceSharedBytes(param) || advanceAux(param), where
\* advanceSharedBytes is Tunable's and advanceAux is not called when it
\* returns true; false for a host field
advanceTuneParam ==
  /\ ~aborted
  /\ ortho.res.kind = "kernel"
  /\ tp.state = "tuning"
  /\ IF ortho.V.location = "CUDA"
     THEN \E advanceSharedBytes \in BOOLEAN :
            IF advanceSharedBytes
            THEN tp' = [tp EXCEPT !.ret = TRUE, !.auxCalled = FALSE]
            ELSE LET r == advanceAux(ortho.build, tp.aux_x)
                 IN tp' = [state |-> IF r.ret THEN "tuning" ELSE "done",
                           aux_x |-> r.aux_x, ret |-> r.ret, auxCalled |-> TRUE,
                           before |-> tp.aux_x,
                           advances |-> IF r.ret THEN tp.advances + 1 ELSE 0,
                           advancesBefore |-> tp.advances]
     ELSE tp' = [tp EXCEPT !.state = "done", !.ret = FALSE, !.auxCalled = FALSE]
  /\ UNCHANGED <<lifeVars, aborted, callVars, chk, cap, blas, ortho, dirac,
               tc>>

InitLib ==
  /\ ortho = NoLib.ortho
  /\ tp = NoLib.tp
  /\ dirac = NoLib.dirac
  /\ tc = NoLib.tc

\* ------------------------------------------------------------------------
\* Specifications
\* ------------------------------------------------------------------------
NoCheck == [a |-> [precision |-> 8, length |-> 24, stride |-> 24],
            b |-> [precision |-> 8, length |-> 24, stride |-> 24],
            outcome |-> Returned]

InitStatics ==
  /\ d_reduce = NULL
  /\ h_reduce = NULL
  /\ hd_reduce = NULL
  /\ reduceEnd = 0
  /\ fast_reduce_enabled = FALSE
  /\ heap = <<>>
  /\ events = <<>>
  /\ cudaError = FALSE
  /\ aborted = FALSE
  /\ reduceLive = FALSE
  /\ nInits = 0
  /\ alternating = TRUE
  /\ reps = 0
  /\ lastCall = Called("none", "unset", FALSE, {}, TRUE)
  /\ pc = "idle"
  /\ kern = "none"
  /\ call = [fn |-> "none", ncolor |-> HQ_NCOLOR, id |-> 0, launched |-> FALSE]
  /\ dbuf = NoBuffer
  /\ hbuf = NoBuffer
  /\ hostReadDone = {}
  /\ combined = NoCombine
  /\ rtn = ZeroTriple

\* the buffer manager alone: any sequence of initReduce / endReduce calls and
\* changes of the environment toggle
Init ==
  /\ InitStatics
  /\ env \in EnvValues
  /\ canMapHostMemory \in BOOLEAN
  /\ lp64 \in BOOLEAN
  /\ fld = [x |-> <<SiteA>>, y |-> <<SiteZ>>, r |-> <<SiteB>>]
  /\ commSize = 1
  /\ chk = NoCheck
  /\ cap = NoCap
  /\ blas = NoBlas
  /\ InitLib

Next ==
  \/ InitReduce
  \/ InitReduceAllocFail
  \/ EndReduce
  \/ SetEnv

Spec == Init /\ [][Next]_vars

\* the buffer manager with heavy-quark reductions of the solver's fields
InitReduction ==
  /\ InitStatics
  /\ env \in {"unset", "1"}
  /\ canMapHostMemory \in BOOLEAN
  /\ lp64 = TRUE
  /\ fld \in OperandSets
  /\ commSize \in 1..MaxCommSize
  /\ chk = NoCheck
  /\ cap = NoCap
  /\ blas = NoBlas
  /\ InitLib

NextReduction ==
  \/ InitReduce
  \/ EndReduce
  \/ HeavyQuarkResidualNorm
  \/ xpyHeavyQuarkResidualNorm
  \/ KernelRun
  \/ HostWait
  \/ HostRead
  \/ Combine
  \/ HQReturn

SpecReduction == InitReduction /\ [][NextReduction]_vars

\* checkSpinor applied to every pair of fields of the bounded attribute set
InitCheck ==
  /\ InitStatics
  /\ env = "unset"
  /\ canMapHostMemory = TRUE
  /\ lp64 = TRUE
  /\ fld = [x |-> <<SiteA>>, y |-> <<SiteZ>>, r |-> <<SiteB>>]
  /\ commSize = 1
  /\ chk \in [a : SpinorAttrs, b : SpinorAttrs, outcome : {Pending}]
  /\ cap = NoCap
  /\ blas = NoBlas
  /\ InitLib

NextCheck == CheckSpinorCall

SpecCheck == InitCheck /\ [][NextCheck]_vars

\* the footprint computation of initReduce() for every device and build of
\* the bounded sets
InitCapacity ==
  /\ InitStatics
  /\ env = "unset"
  /\ canMapHostMemory = TRUE
  /\ lp64 = TRUE
  /\ fld = [x |-> <<SiteA>>, y |-> <<SiteZ>>, r |-> <<SiteB>>]
  /\ commSize = 1
  /\ chk = NoCheck
  /\ cap \in {[NoCap EXCEPT !.multiProcessorCount = c, !.MAX_MULTI_BLAS_N = n,
                              !.outcome = "pending"] :
                c \in SmCounts, n \in MultiBlasWidths}
  /\ blas = NoBlas
  /\ InitLib

NextCapacity == AllocateBuffers

SpecCapacity == InitCapacity /\ [][NextCapacity]_vars

\* one call of an entry point of the catalogue on every set of fields and
\* coefficients of the bounded sets
InitBlas ==
  /\ InitStatics
  /\ env = "unset"
  /\ canMapHostMemory = TRUE
  /\ lp64 = TRUE
  /\ fld = [x |-> <<SiteA>>, y |-> <<SiteZ>>, r |-> <<SiteB>>]
  /\ commSize = 1
  /\ chk = NoCheck
  /\ cap = NoCap
  /\ blas \in {[NoBlas EXCEPT !.a = c[1], !.b = c[2], !.prec = f[1],
                               !.in = f[2], !.out = f[2]] :
                 c \in BlasCoeffs, f \in BlasFields}
  /\ InitLib

NextBlas == \E fn \in EntryPoints, nc \in Ncolors : ReductionCall(fn, nc)

SpecBlas == InitBlas /\ [][NextBlas]_vars

\* one call of BlockOrthogonalize in every build and on every pair of fields
\* of the bounded sets
InitOrtho ==
  /\ InitStatics
  /\ env = "unset"
  /\ canMapHostMemory = TRUE
  /\ lp64 = TRUE
  /\ fld = [x |-> <<SiteA>>, y |-> <<SiteZ>>, r |-> <<SiteB>>]
  /\ commSize = 1
  /\ chk = NoCheck
  /\ cap = NoCap
  /\ blas = NoBlas
  /\ ortho \in OrthoCalls
  /\ tp = NoLib.tp
  /\ dirac = NoLib.dirac
  /\ tc = NoLib.tc

NextOrtho ==
  \/ BlockOrthogonalizeCall
  \/ defaultTuneParam
  \/ advanceTuneParam

SpecOrtho == InitOrtho /\ [][NextOrtho]_vars

\* ------------------------------------------------------------------------
\* prepare() of the Wilson Dirac operators (DiracWilson, DiracWilsonPC)
\* ------------------------------------------------------------------------
\* DiracWilson::prepare(ColorSpinorField* src, ColorSpinorField* sol, x, b,
\* solType). src and sol are pointers received by value: the assignments
\* write the callee's parameters (dirac.param), the caller's variables
\* (dirac.caller) are not reachable from the callee
DiracWilson_prepare ==
  /\ ~aborted
  /\ dirac.op = "DiracWilson"
  /\ dirac.state = "pending"
  /\ IF dirac.solType \in {"QUDA_MATPC_SOLUTION", "QUDA_MATPCDAG_MATPC_SOLUTION"}
     THEN /\ dirac' = [dirac EXCEPT !.state = "fatal"]
          /\ aborted' = TRUE
     ELSE /\ dirac' = [dirac EXCEPT !.param = [src |-> "b", sol |-> "x"],
                                    !.state = "returned"]
          /\ UNCHANGED aborted
  /\ UNCHANGED <<lifeVars, callVars, chk, cap, blas, ortho, tp, tc>>

\* DiracWilsonPC::prepare(ColorSpinorField *src, ColorSpinorField *sol, x, b,
\* solType): for a solution of the full system DslashXpay(out, in, parity,
\* x, k) stores x + k * D_parity in into one parity of the solution field
\* before the parameters are assigned
DiracWilsonPC_prepare ==
  /\ ~aborted
  /\ dirac.op = "DiracWilsonPC"
  /\ dirac.state = "pending"
  /\ LET DslashXpay(in, parity, x, k) == <<x, "+", k, "D", parity, in>>
     IN IF dirac.solType \in {"QUDA_MATPC_SOLUTION",
                              "QUDA_MATPCDAG_MATPC_SOLUTION"}
        THEN /\ dirac' = [dirac EXCEPT !.param = [src |-> "b", sol |-> "x"],
                                       !.state = "returned"]
             /\ UNCHANGED aborted
        ELSE IF dirac.matpcType = "QUDA_MATPC_EVEN_EVEN"
        THEN /\ dirac' = [dirac EXCEPT
                  !.x.Odd = DslashXpay("b.Odd()", "QUDA_EVEN_PARITY",
                                       "b.Even()", "kappa"),
                  !.param = [src |-> "x.Odd()", sol |-> "x.Even()"],
                  !.state = "returned"]
             /\ UNCHANGED aborted
        ELSE IF dirac.matpcType = "QUDA_MATPC_ODD_ODD"
        THEN /\ dirac' = [dirac EXCEPT
                  !.x.Even = DslashXpay("b.Even()", "QUDA_ODD_PARITY",
                                        "b.Odd()", "kappa"),
                  !.param = [src |-> "x.Even()", sol |-> "x.Odd()"],
                  !.state = "returned"]
             /\ UNCHANGED aborted
        ELSE /\ dirac' = [dirac EXCEPT !.state = "fatal"]
             /\ aborted' = TRUE
  /\ UNCHANGED <<lifeVars, callVars, chk, cap, blas, ortho, tp, tc>>

\* one prepare() call of either operator, for every matpcType and solType
\* and every pair of values the caller's two pointer variables hold when
\* they are passed (the parameters start as copies of them)
InitDirac ==
  /\ InitStatics
  /\ env = "unset"
  /\ canMapHostMemory = TRUE
  /\ lp64 = TRUE
  /\ fld = [x |-> <<SiteA>>, y |-> <<SiteZ>>, r |-> <<SiteB>>]
  /\ commSize = 1
  /\ chk = NoCheck
  /\ cap = NoCap
  /\ blas = NoBlas
  /\ ortho = NoLib.ortho
  /\ tp = NoLib.tp
  /\ tc = NoLib.tc
  /\ \E op \in {"DiracWilson", "DiracWilsonPC"},
        matpcType \in {"QUDA_MATPC_EVEN_EVEN", "QUDA_MATPC_ODD_ODD",
                       "QUDA_MATPC_EVEN_EVEN_ASYMMETRIC",
                       "QUDA_MATPC_ODD_ODD_ASYMMETRIC", "QUDA_MATPC_INVALID"},
        solType \in {"QUDA_MAT_SOLUTION", "QUDA_MATDAG_MAT_SOLUTION",
                     "QUDA_MATPC_SOLUTION", "QUDA_MATPCDAG_MATPC_SOLUTION"},
        src \in {"nullptr", "b", "x", "x.Odd()", "x.Even()"},
        sol \in {"nullptr", "b", "x", "x.Odd()", "x.Even()"} :
       dirac = [NoLib.dirac EXCEPT !.op = op, !.matpcType = matpcType,
                                   !.solType = solType,
                                   !.caller = [src |-> src, sol |-> sol],
                                   !.param = [src |-> src, sol |-> sol]]

NextDirac ==
  \/ DiracWilson_prepare
  \/ DiracWilsonPC_prepare

SpecDirac == InitDirac /\ [][NextDirac]_vars

\* ------------------------------------------------------------------------
\* The tensor-core dslash5-inverse dagger kernel
\* (dslash_core/dw_dslash5inv_dagger_core_sm_tc.h)
\* ------------------------------------------------------------------------
\* One thread block is followed through the grid-stride loop. The threads of
\* a block differ, for the loop and its barriers, only in threadIdx.x; the
\* block is represented by its first, middle and last thread in x. Every
\* thread has its own copy of s4_base, idle and the tile counter c. The sizes
\* explored keep s4_base + gridDim.x * blockDim.x far below 2^31.

\* mutant: the loop continues while the thread's own site is inside the volume
WhileCondition_PerThread(s4_base, threadIdx_x, threads) ==
  s4_base + threadIdx_x < threads

\* the condition of the while loop, evaluated by the thread threadIdx_x
WhileCondition(s4_base, threadIdx_x, threads) == s4_base < threads

\* const int warp_cycle = float(total_tile)/total_warp, with M = 12*4,
\* N = 6*blockDim.x, tm_dim = M >> 4, tn_dim = N >> 4 and
\* total_warp = (blockDim.x*blockDim.y) >> 5
warp_cycle(blockDim) ==
  LET M == 12 * 4
      N == 6 * blockDim.x
      tm_dim == M \div 16
      tn_dim == N \div 16
      total_warp == (blockDim.x * blockDim.y) \div 32
      total_tile == tm_dim * tn_dim
  IN total_tile \div total_warp

\* while (s4_base < param.threads) { s4 = s4_base + threadIdx.x;
\* if (s4 >= param.threads) idle = true; if (!idle) { load the spinor into
\* sm_b } __syncthreads(); -- or the thread leaves the loop
LoopHead(t) ==
  LET th == tc.thread[t]
      idle == th.idle \/ th.s4_base + t >= tc.threads
  IN /\ ~tc.hung
     /\ th.pc = "while"
     /\ tc' = [tc EXCEPT !.thread[t] =
          IF WhileCondition(th.s4_base, t, tc.threads)
          THEN [th EXCEPT !.idle = idle,
                          !.iter = @ + 1,
                          !.loads = IF idle THEN @ ELSE @ + 1,
                          !.sync[1] = @ + 1,
                          !.pc = "sync223"]
          ELSE [th EXCEPT !.pc = "exit"]]
     /\ UNCHANGED <<lifeVars, aborted, callVars, chk, cap, blas, ortho, tp,
                    dirac>>

\* for (int c = 0; c < warp_cycle; c++) { fill, load and mma the tile;
\* __syncthreads(); store the tile } __syncthreads();
WmmaCycle(t) ==
  LET th == tc.thread[t]
  IN /\ ~tc.hung
     /\ th.pc = "wmma"
     /\ tc' = [tc EXCEPT !.thread[t] =
          IF th.c < warp_cycle(tc.blockDim)
          THEN [th EXCEPT !.sync[2] = @ + 1, !.pc = "sync283"]
          ELSE [th EXCEPT !.sync[3] = @ + 1, !.pc = "sync293"]]
     /\ UNCHANGED <<lifeVars, aborted, callVars, chk, cap, blas, ortho, tp,
                    dirac>>

\* if (!idle) { read sm_c, WRITE_SPINOR } s4_base += gridDim.x*blockDim.x;
WriteBack(t) ==
  LET th == tc.thread[t]
  IN /\ ~tc.hung
     /\ th.pc = "write"
     /\ tc' = [tc EXCEPT !.thread[t] =
          [th EXCEPT !.stores = IF th.idle THEN @ ELSE @ + 1,
                     !.s4_base = @ + tc.gridDim_x * tc.blockDim.x,
                     !.pc = "while"]]
     /\ UNCHANGED <<lifeVars, aborted, callVars, chk, cap, blas, ortho, tp,
                    dirac>>

\* the barrier of the block, whichever __syncthreads() each thread waits in:
\* once every thread has arrived all of them go on, after line 223 into the
\* tile loop with c = 0, after line 283 to the next tile, after line 293 to
\* the write-back. A barrier that a thread of the block has left out by
\* leaving the kernel is undefined: the block hangs or the waiting threads
\* are let through
syncthreads ==
  LET T == DOMAIN tc.thread
      waiting == {t \in T : tc.thread[t].pc \in {"sync223", "sync283",
                                                 "sync293"}}
      exited == {t \in T : tc.thread[t].pc = "exit"}
      Go(th) == CASE th.pc = "sync223" -> [th EXCEPT !.c = 0, !.pc = "wmma"]
                  [] th.pc = "sync283" -> [th EXCEPT !.c = @ + 1,
                                                     !.pc = "wmma"]
                  [] th.pc = "sync293" -> [th EXCEPT !.pc = "write"]
                  [] OTHER -> th
  IN /\ ~tc.hung
     /\ waiting # {}
     /\ waiting \cup exited = T
     /\ \E hang \in IF exited = {} THEN {FALSE} ELSE BOOLEAN :
          tc' = IF hang THEN [tc EXCEPT !.hung = TRUE]
                ELSE [tc EXCEPT !.thread = [t \in T |-> Go(tc.thread[t])]]
     /\ UNCHANGED <<lifeVars, aborted, callVars, chk, cap, blas, ortho, tp,
                    dirac>>

\* one block of a launch past the barrier of line 115: blockDim.x = 32 as the
\* kernel assumes, or 64, blockDim.y = Ls = 12, volumes param.threads that
\* fill the blocks or leave the last one partly or wholly outside, and grids
\* that cover the volume in one or in several strides;
\* idle = false, s4_base = blockIdx.x * blockDim.x
InitTc ==
  /\ InitStatics
  /\ env = "unset"
  /\ canMapHostMemory = TRUE
  /\ lp64 = TRUE
  /\ fld = [x |-> <<SiteA>>, y |-> <<SiteZ>>, r |-> <<SiteB>>]
  /\ commSize = 1
  /\ chk = NoCheck
  /\ cap = NoCap
  /\ blas = NoBlas
  /\ ortho = NoLib.ortho
  /\ tp = NoLib.tp
  /\ dirac = NoLib.dirac
  /\ \E threads \in {1, 16, 17, 32, 48, 64, 80, 100},
        blockDim_x \in {32, 64},
        gridDim_x \in 1..3 :
       \E blockIdx_x \in 0..(gridDim_x - 1) :
         tc = [threads |-> threads,
               blockDim |-> [x |-> blockDim_x, y |-> 12],
               gridDim_x |-> gridDim_x,
               blockIdx_x |-> blockIdx_x,
               hung |-> FALSE,
               thread |-> [t \in {0, blockDim_x \div 2, blockDim_x - 1} |->
                             [pc |-> "while",
                              s4_base |-> blockIdx_x * blockDim_x,
                              idle |-> FALSE, c |-> 0, iter |-> 0,
                              loads |-> 0, stores |-> 0,
                              sync |-> <<0, 0, 0>>]]]

NextTc ==
  \/ \E t \in DOMAIN tc.thread : LoopHead(t)
  \/ \E t \in DOMAIN tc.thread : WmmaCycle(t)
  \/ \E t \in DOMAIN tc.thread : WriteBack(t)
  \/ syncthreads

\* every thread that can take a step eventually takes one
SpecTc == InitTc /\ [][NextTc]_vars /\ WF_vars(NextTc)

\* ------------------------------------------------------------------------
\* Properties
\* ------------------------------------------------------------------------
HandlesNull == d_reduce = NULL /\ h_reduce = NULL /\ hd_reduce = NULL

\* C1: idempotent restart. After n >= 1 repetitions of initReduce();
\* endReduce() the three handles are null, every buffer allocated has been
\* freed exactly once, and each init allocated its own two new buffers
\* (2n allocations in all, the live handles designating unfreed buffers).
\* No buffer is ever freed twice.
C1_IdempotentRestart ==
  /\ \A i \in 1..Len(heap) : heap[i].frees <= 1
  /\ (alternating /\ reps >= 1 /\ lastCall.op = "end") =>
       /\ HandlesNull
       /\ Len(heap) = 2 * reps
       /\ \A i \in 1..Len(heap) : heap[i].frees = 1
  /\ (alternating /\ lastCall.op = "init" /\ lastCall.returned) =>
       /\ Len(heap) = 2 * (reps + 1)
       /\ d_reduce.alloc = Len(heap) - 1
       /\ h_reduce.alloc = Len(heap)
       /\ heap[d_reduce.alloc].frees = 0
       /\ heap[h_reduce.alloc].frees = 0

\* two full repetitions of initReduce(); endReduce() have been made
C1_Witness ==
  alternating /\ reps = 2 /\ lastCall.op = "end" /\ Len(heap) = 4

\* C2 (as claimed): endReduce() with all handles already null changes no
\* state and performs no free or destroy operation, the completion event
\* included.
C2_TeardownOnNullIsNoOp ==
  [][(EndReduce /\ HandlesNull) =>
       /\ lastCall'.ops = {}
       /\ UNCHANGED <<d_reduce, h_reduce, hd_reduce, reduceEnd,
                      fast_reduce_enabled, heap, events, cudaError, aborted>>]_vars

C4_DefaultsToEventBased ==
  (alternating /\ lastCall.op = "init" /\ lastCall.returned /\ lastCall.env # "1")
    => ~fast_reduce_enabled

C6_CheckSpinorIffCompatible ==
  chk.outcome # Pending =>
    LET a == chk.a
        b == chk.b
        o == chk.outcome
        same == /\ a.precision = b.precision
                /\ a.length = b.length
                /\ a.stride = b.stride
    IN /\ o.ok <=> same
       /\ o.ok => ~aborted
       /\ ~o.ok =>
            /\ aborted
            /\ ~ENABLED NextCheck
            /\ o.va # o.vb
            /\ <<o.what, o.va, o.vb>> \in
                 {<<"precisions do not match", a.precision, b.precision>>,
                  <<"lengths do not match", a.length, b.length>>,
                  <<"strides do not match", a.stride, b.stride>>}

\* checkSpinor was fatal for two fields that differ in the stride alone
C6_Witness ==
  /\ chk.outcome.what = "strides do not match"
  /\ chk.a.precision = chk.b.precision
  /\ chk.a.length = chk.b.length
  /\ aborted

\* C7: a heavy-quark entry point called on fields whose colour count (that
\* of x, the operand the code tests) is not 3 returns (0, 0, 0) and does
\* nothing else: no kernel launch, no collective, no abort, the operand
\* fields and both reduction buffers untouched.
C7_DegenerateZeroTriple ==
  [][\A fn \in HQEntryPoints : \A nc \in Ncolors :
       (HQCall(fn, nc) /\ nc # HQ_NCOLOR) =>
         /\ rtn' = ZeroTriple
         /\ ~aborted'
         /\ pc' = "idle"
         /\ UNCHANGED <<kern, dbuf, hbuf, hostReadDone, combined, fld,
                        d_reduce, h_reduce, hd_reduce>>]_vars

\* a call on fields of another colour count has returned zero after an
\* earlier reduction had left its result in the buffer
C7_Witness ==
  /\ call.ncolor # HQ_NCOLOR /\ call.fn \in HQEntryPoints /\ ~call.launched
  /\ call.id >= 1 /\ dbuf.tag = "data" /\ dbuf.val # ZeroTriple
  /\ rtn = ZeroTriple /\ pc = "idle"

\* C8: serialized use of the shared buffer. While a reduction call is in
\* progress (from its launch to its return), and for whatever call last
\* wrote either buffer, the host read of every earlier call has completed;
\* a host read happens only once the kernel of that call is done.
C8_SerializedBuffer ==
  /\ (pc # "idle" \/ kern = "running") =>
       \A a \in 1..(call.id - 1) : a \in hostReadDone
  /\ \A buf \in {dbuf, hbuf} :
       buf.tag = "data" => \A a \in 1..(buf.by - 1) : a \in hostReadDone
  /\ (call.id \in hostReadDone) => kern = "done"

\* the kernel of a second call is running in spin-wait mode on mapped
\* memory, the buffer still holding the first call's result
C8_Witness ==
  /\ call.id = 2 /\ kern = "running" /\ fast_reduce_enabled
  /\ hd_reduce # d_reduce /\ hbuf.tag = "data" /\ hbuf.by = 1

\* C9: local reduce, then cross-process sum, then the ratio. The value a
\* heavy-quark call returns has the first two components of the combined
\* sum unchanged and the third divided, exactly once, by
\* local volume x process count; the combined sum is the value the host
\* read plus the other processes' contribution.
C9_RatioAfterCombine ==
  (pc = "idle" /\ call.launched) =>
    LET g == combined.global
        k == Volume(fld.x) * commSize
    IN /\ g = TripleAdd(combined.local, combined.remote)
       /\ call.id \in hostReadDone
       /\ rtn.x = g.x
       /\ rtn.y = g.y
       /\ rtn.z.n * g.z.d * k = g.z.n * rtn.z.d

\* a call over two sites and two processes has returned a non-zero ratio
C9_Witness ==
  /\ pc = "idle" /\ call.launched /\ commSize = 2 /\ Volume(fld.x) = 2
  /\ combined.remote # ZeroTriple /\ rtn.z.n # 0 /\ rtn.z # combined.global.z

\* C10: whenever the buffer is live the three handles are non-null; on a
\* 64-bit build with a device that maps host memory the host buffer is
\* mapped and hd_reduce is its device alias, distinct from d_reduce;
\* otherwise the host buffer is pinned and hd_reduce is d_reduce.
C10_HostBufferStrategy ==
  reduceLive =>
    /\ d_reduce # NULL /\ h_reduce # NULL /\ hd_reduce # NULL
    /\ heap[d_reduce.alloc].kind = "device"
    /\ IF canMapHostMemory /\ lp64
       THEN /\ heap[h_reduce.alloc].kind = "mapped"
            /\ hd_reduce.alloc = h_reduce.alloc
            /\ hd_reduce.view = "device"
            /\ hd_reduce # d_reduce
       ELSE /\ heap[h_reduce.alloc].kind = "pinned"
            /\ hd_reduce = d_reduce

\* the buffer is live again after a teardown, on a 32-bit build whose
\* device can map host memory
C10_Witness ==
  /\ reduceLive /\ nInits = 2 /\ Len(heap) = 4
  /\ canMapHostMemory /\ ~lp64 /\ hd_reduce = d_reduce

\* C11: every time initReduce() creates a host buffer and returns, the whole
\* host buffer is zero: no byte of it is as the allocator left it.
C11_HostBufferZeroed ==
  (/\ lastCall.op = "init"
   /\ lastCall.returned
   /\ \E o \in lastCall.ops : o[1] = "host_malloc") => hbuf = Zeroed

C11_Witness ==
  /\ lastCall.op = "init"
  /\ lastCall.returned
  /\ \E o \in lastCall.ops : o[1] = "host_malloc"
  /\ ~canMapHostMemory
  /\ hbuf.tag = "zero"
  /\ reps >= 1

\* c >= the product of the positive factors fs, without forming the product
RECURSIVE AtLeastProduct(_, _)
AtLeastProduct(c, fs) ==
  IF fs = <<>> THEN c >= 1
  ELSE c >= 1 /\ AtLeastProduct(c \div Head(fs), Tail(fs))

LiveEvents == Cardinality({i \in 1..Len(events) : events[i] = "live"})

\* the reduction buffers are live
BuffersLive == d_reduce # NULL /\ h_reduce # NULL

\* C13: in every state reached by initReduce() / endReduce() calls at most
\* one completion event is created and not destroyed: exactly one whenever
\* the buffers are live and none whenever they are not.
C13_OneEventWhileLive ==
  ~aborted =>
    /\ LiveEvents <= 1
    /\ BuffersLive => LiveEvents = 1
    /\ ~BuffersLive => LiveEvents = 0

\* ------------------------------------------------------------------------
\* Properties of the reduction catalogue
\* ------------------------------------------------------------------------
\* the sum of the first n values of a sequence
RECURSIVE SumTo(_, _)
SumTo(f, n) == IF n = 0 THEN 0 ELSE f[n] + SumTo(f, n - 1)

\* the sum over all real components of a field of the component squared
SumSquares(f) ==
  SumTo([i \in 1..Len(f) |->
          SumTo([j \in 1..Len(f[i]) |->
                  SumTo([k \in 1..Len(f[i][j]) |-> f[i][j][k] * f[i][j][k]],
                        Len(f[i][j]))],
                Len(f[i]))],
        Len(f))

\* the complex product a * x of every complex number (pair of components)
\* of an element
CMul(a, x) ==
  [k \in 1..Len(x) |-> IF k % 2 = 1 THEN a[1] * x[k] - a[2] * x[k + 1]
                       ELSE a[2] * x[k - 1] + a[1] * x[k]]

\* fields combined element by element
FieldScale(s, f) == [i \in 1..Len(f) |-> [j \in 1..Len(f[i]) |-> VScale(s, f[i][j])]]
FieldCMul(a, f) == [i \in 1..Len(f) |-> [j \in 1..Len(f[i]) |-> CMul(a, f[i][j])]]
FieldAdd(f, g) == [i \in 1..Len(f) |-> [j \in 1..Len(f[i]) |-> ElemAdd(f[i][j], g[i][j])]]
FieldSub(f, g) == [i \in 1..Len(f) |-> [j \in 1..Len(f[i]) |-> VSub(f[i][j], g[i][j])]]

\* the call of an entry point went through the dispatcher
Dispatched == blas.fn # "none" /\ blas.path \in {"uniform", "mixed"}

\* the result of entry point fn on the fields st, all of one precision
ResultOf(fn, st) ==
  ReduceCall(fn, HQ_NCOLOR, blas.a, blas.b, st, Precisions(8, 8, 8), commSize).ret

\* C14: for every field x, norm2(x) equals reDotProduct(x, x): both are the
\* sum over all real components of the component squared.
C14_Norm2IsReDotXX ==
  (blas.fn = "norm2" /\ Dispatched) =>
    /\ blas.ret = ResultOf("reDotProduct", [blas.in EXCEPT !.y = blas.in.x])
    /\ blas.ret = <<SumSquares(blas.in.x)>>

C14_Witness ==
  /\ blas.fn = "norm2"
  /\ Dispatched
  /\ Len(blas.in.x) >= 2
  /\ blas.in.x[1] # blas.in.x[2]
  /\ blas.ret[1] > 0

\* C15: conjugate symmetry. cDotProduct(x, y) is the complex conjugate of
\* cDotProduct(y, x): equal real parts, opposite imaginary parts, for the
\* 2-component and the 4-component element layouts.
C15_ConjugateSymmetry ==
  (blas.fn = "cDotProduct" /\ Dispatched) =>
    LET yx == ResultOf("cDotProduct",
                       [blas.in EXCEPT !.x = blas.in.y, !.y = blas.in.x])
    IN /\ blas.ret[1] = yx[1]
       /\ blas.ret[2] = -yx[2]

C15_Witness ==
  /\ blas.fn = "cDotProduct"
  /\ Dispatched
  /\ Len(blas.in.x[1][1]) = 4
  /\ blas.ret[1] # 0
  /\ blas.ret[2] # 0

PureReductions ==
  {"norm1", "norm2", "reDotProduct", "cDotProduct", "cDotProductNormA",
   "tripleCGReduction", "quadrupleCGReduction", "HeavyQuarkResidualNorm",
   "xpyHeavyQuarkResidualNorm"}

\* C17: the pure reductions leave every operand field exactly as it was:
\* all five write flags are off and the functor assigns to no operand.
C17_PureReductionsFrame ==
  blas.fn \in PureReductions =>
    /\ blas.out = blas.in
    /\ WriteFlags(blas.fn) = {}
    /\ blas.mutated = {}
    /\ Assigns(blas.fn) = {}

C17_Witness ==
  /\ blas.fn = "quadrupleCGReduction"
  /\ Dispatched
  /\ Len(blas.in.x) >= 2
  /\ blas.ret[3] # 0

\* C18: for every entry point of the catalogue the set of slots its functor
\* assigns equals the set of slots whose write flag is set, so every mutation
\* the update makes reaches its field.
C18_WriteSetIsAssignedSet ==
  Dispatched =>
    /\ Assigns(blas.fn) = WriteFlags(blas.fn)
    /\ blas.mutated \subseteq WriteFlags(blas.fn)

\* C18 as the code has it: every flagged slot is assigned and no field
\* outside the flagged slots changes; the two sets are equal for every entry
\* point but cabxpyzAxNorm, whose functor also assigns its copy of y while
\* the write flag of y is off, so that mutation does not reach the field y.
C18_WriteSetWithinAssignedSet ==
  Dispatched =>
    /\ WriteFlags(blas.fn) \subseteq Assigns(blas.fn)
    /\ blas.mutated \subseteq Assigns(blas.fn)
    /\ \A f \in DOMAIN blas.in :
         blas.out[f] # blas.in[f] =>
           \E s \in WriteFlags(blas.fn) : SlotField(blas.fn, s) = f
    /\ blas.fn # "cabxpyzAxNorm" => Assigns(blas.fn) = WriteFlags(blas.fn)
    /\ blas.fn = "cabxpyzAxNorm" =>
         /\ Assigns(blas.fn) \ WriteFlags(blas.fn) = {"y"}
         /\ blas.out.y = blas.in.y

C18_Witness ==
  /\ blas.fn = "cabxpyzAxNorm"
  /\ Dispatched
  /\ "y" \in blas.mutated
  /\ blas.out.y = blas.in.y
  /\ blas.out.z # blas.in.z
  /\ blas.out.x # blas.in.x

C20_CaxpbypzYmbwcDotProductUYNormY ==
  (blas.fn = "caxpbypzYmbwcDotProductUYNormY" /\ Dispatched) =>
    LET uy == ResultOf("cDotProduct",
                       [blas.in EXCEPT !.x = blas.in.u, !.y = blas.out.y])
    IN /\ blas.out.z = FieldAdd(FieldAdd(blas.in.z, FieldCMul(blas.a, blas.in.x)),
                                FieldCMul(blas.b, blas.in.y))
       /\ blas.out.y = FieldSub(blas.in.y, FieldCMul(blas.b, blas.in.w))
       /\ blas.out.x = blas.in.x
       /\ blas.out.w = blas.in.w
       /\ blas.out.u = blas.in.u
       /\ blas.ret = <<uy[1], uy[2], SumSquares(blas.out.y)>>

C20_Witness ==
  /\ blas.fn = "caxpbypzYmbwcDotProductUYNormY"
  /\ blas.path = "mixed"
  /\ blas.a[2] # 0
  /\ blas.b[2] # 0
  /\ blas.out.y # blas.in.y
  /\ blas.ret[2] # 0

\* the precisions of the fields an entry point passes to the dispatcher are
\* not all alike
PassedPrecisionsDiffer(fn, prec) ==
  \E i \in 1..5 : prec[Catalog[fn].slots[i]] # prec[Catalog[fn].slots[1]]

\* C21: mixed-precision selection. caxpbypzYmbwcDotProductUYNormY takes the
\* mixed-precision path exactly when the precisions of x and z differ and
\* axpyCGNorm exactly when the precisions of x and y differ; with equal
\* precisions both take the uniform path; every other entry point always
\* takes the uniform path, where operands of differing precisions are a fatal
\* incompatibility (nothing computed, nothing written), never a mixed
\* computation.
C21_MixedSelection ==
  (blas.fn # "none" /\ blas.path # "none") =>
    LET differ ==
          \/ /\ blas.fn = "caxpbypzYmbwcDotProductUYNormY"
             /\ blas.prec.x # blas.prec.z
          \/ /\ blas.fn = "axpyCGNorm"
             /\ blas.prec.x # blas.prec.y
    IN /\ (blas.path = "mixed") <=> differ
       /\ (blas.path = "uniform") <=>
            (~differ /\ ~PassedPrecisionsDiffer(blas.fn, blas.prec))
       /\ (blas.path = "fatal") <=>
            (~differ /\ PassedPrecisionsDiffer(blas.fn, blas.prec))
       /\ blas.path = "fatal" =>
            (aborted /\ blas.out = blas.in /\ blas.ret = <<>>)

C21_Witness ==
  /\ blas.fn = "axpyCGNorm"
  /\ blas.path = "mixed"
  /\ blas.prec.x # blas.prec.y
  /\ blas.out.y # blas.in.y

\* C22: axpyCGNorm(a, x, y) leaves y = y_old + a*x and x unchanged, and
\* returns the pair (norm2 of the new y, real dot product of the new y with
\* (new y - old y)).
C22_AxpyCGNorm ==
  (blas.fn = "axpyCGNorm" /\ Dispatched) =>
    LET delta == FieldSub(blas.out.y, blas.in.y)
        dot == ResultOf("reDotProduct",
                        [blas.in EXCEPT !.x = blas.out.y, !.y = delta])
    IN /\ blas.out.y = FieldAdd(blas.in.y, FieldScale(blas.a[1], blas.in.x))
       /\ blas.out.x = blas.in.x
       /\ blas.ret = <<SumSquares(blas.out.y), dot[1]>>

C22_Witness ==
  /\ blas.fn = "axpyCGNorm"
  /\ Dispatched
  /\ blas.a[1] # 0
  /\ blas.out.y # blas.in.y
  /\ blas.in.y # ConstField(Len(blas.in.y), SiteZ)
  /\ blas.ret[2] # 0
  /\ blas.ret[2] # blas.ret[1]

\* the sum over the sites 1..i of the ratio of the site's norm of rs to the
\* site's norm of xs, 1 for a site whose norm of xs is not positive
RECURSIVE SiteRatios(_, _, _)
SiteRatios(xs, rs, i) ==
  IF i = 0 THEN Rat(0, 1)
  ELSE LET nx == SumSquares(<<xs[i]>>)
           nr == SumSquares(<<rs[i]>>)
       IN RatAdd(SiteRatios(xs, rs, i - 1),
                 IF nx > 0 THEN Rat(nr, nx) ELSE Rat(1, 1))

\* C23: heavy-quark hook protocol. In HeavyQuarkResidualNorm_ and
\* xpyHeavyQuarkResidualNorm_ the per-element update only accumulates norm2
\* into the auxiliary pair and never divides; pre() zeroes the pair before
\* the loop over the elements of a site and post() runs once after it, adding
\* aux.x to component 1, aux.y to component 2 and to component 3 the ratio
\* aux.y / aux.x of the two accumulated sums, or exactly 1 when aux.x is not
\* positive. No other functor of the catalogue overrides pre() or post().
C23_HookProtocol ==
  /\ (kern = "done" /\ call.launched /\ dbuf.tag = "data" /\ dbuf.by = call.id) =>
       LET xs == IF call.fn = "HeavyQuarkResidualNorm" THEN fld.x
                 ELSE FieldAdd(fld.x, fld.y)
       IN /\ dbuf.val.x = Rat(SumSquares(xs), 1)
          /\ dbuf.val.y = Rat(SumSquares(fld.r), 1)
          /\ dbuf.val.z = SiteRatios(xs, fld.r, Volume(fld.x))
  /\ \A fn \in EntryPoints :
       Catalog[fn].functor \in HookOverrides <=> fn \in HQEntryPoints

\* a site with a positive norm of x and a site where x is zero
C23_Witness ==
  /\ kern = "done" /\ call.launched /\ dbuf.tag = "data" /\ dbuf.by = call.id
  /\ call.fn = "HeavyQuarkResidualNorm"
  /\ Volume(fld.x) = 2
  /\ fld.x[1] = SiteA /\ fld.x[2] = SiteZ /\ fld.r[1] = SiteB
  /\ dbuf.val.z = Rat(11, 2)

C25_QuadrupleCGReduction ==
  (blas.fn = "quadrupleCGReduction" /\ Dispatched) =>
    LET yz == ResultOf("reDotProduct",
                       [blas.in EXCEPT !.x = blas.in.y, !.y = blas.in.z])
    IN blas.ret = <<SumSquares(blas.in.x), SumSquares(blas.in.y), yz[1],
                    SumSquares(blas.in.z)>>

\* ------------------------------------------------------------------------
\* Properties of BlockOrthogonalize
\* ------------------------------------------------------------------------
\* the (V precision, B[0] precision) pairs a build supports
SupportedPrecisions(build) ==
  IF ~build.multigrid THEN {}
  ELSE {<<4, 4>>, <<2, 4>>, <<2, 2>>}
         \cup (IF build.multigridDouble THEN {<<8, 8>>} ELSE {})

\* the types of the instantiation for a pair of precisions
FloatOf(p) == CASE p = 8 -> "double" [] p = 4 -> "float" [] p = 2 -> "short"

\* C26: BlockOrthogonalize(V, B, ...) proceeds to a kernel only for the
\* (V precision, B[0] precision) pairs (double, double) when double multigrid
\* is built, (single, single), (half, single) and (half, half), which pass
\* the precision dispatch with the instantiation of exactly these types;
\* every other pair, and every call in a build without multigrid, is a fatal
\* error raised before any field is modified, with no fallback to another
\* precision.
C26_PrecisionDispatch ==
  ortho.res.kind # "pending" =>
    LET pair == <<ortho.V.Precision, ortho.B.Precision>>
        res == ortho.res
    IN /\ res.kind = "kernel" =>
            /\ pair \in SupportedPrecisions(ortho.build)
            /\ res.inst.vFloat = FloatOf(pair[1])
            /\ res.inst.bFloat = FloatOf(pair[2])
       /\ pair \in SupportedPrecisions(ortho.build) =>
            /\ res.kind \in {"kernel", "fatal"}
            /\ res.stage # "precision"
       /\ pair \notin SupportedPrecisions(ortho.build) =>
            /\ res.kind = "fatal"
            /\ res.stage = "precision"
            /\ ~res.scaled

\* the (nColor, nVec) instantiations of the kernel
OrthoInstantiations ==
  {<<3, 6>>, <<3, 24>>, <<3, 32>>, <<3, 48>>, <<6, 6>>, <<24, 24>>,
   <<24, 32>>, <<32, 32>>}

\* C27: whenever BlockOrthogonalize dispatches to a kernel instantiation
\* with compile-time (nColor, nVec), nVec equals B.size() and nColor * nVec
\* equals V.Ncolor() exactly, with (nColor, nVec) one of the eight
\* instantiations; every other (V.Ncolor(), B.size()) pair, including one
\* where V.Ncolor() is not a multiple of B.size(), is a fatal error.
C27_ColourDispatch ==
  (ortho.res.kind # "pending" /\ ortho.res.stage # "precision"
     /\ ortho.res.stage # "spin" /\ ortho.res.stage # "compile") =>
    LET res == ortho.res
        exact == \E t \in OrthoInstantiations :
                   ortho.B.size = t[2] /\ ortho.V.Ncolor = t[1] * t[2]
    IN /\ res.kind = "kernel" =>
            /\ res.inst.nVec = ortho.B.size
            /\ res.inst.nColor * res.inst.nVec = ortho.V.Ncolor
            /\ <<res.inst.nColor, res.inst.nVec>> \in OrthoInstantiations
       /\ ~exact => res.kind = "fatal"

\* C28: the tuning sweep of the swizzle factor terminates and stays in
\* range. Starting from aux.x = 1 (defaultTuneParam), each advanceAux call
\* with SWIZZLE either increments aux.x by one and returns true while
\* aux.x < 2 x multiprocessor count, or resets aux.x to 1 and returns false;
\* so aux.x is always in [1, 2 x multiprocessor count] and false is returned
\* after exactly 2 x multiprocessor count - 1 successful advances; without
\* SWIZZLE, and for a host-resident V in advanceTuneParam, the call returns
\* false without changing the parameter.
C28_SwizzleSweep ==
  tp.state # "none" =>
    LET max == 2 * ortho.build.multiProcessorCount
    IN /\ tp.aux_x \in 1..max
       /\ tp.advances = tp.aux_x - 1
       /\ tp.auxCalled =>
            IF ortho.build.swizzle
            THEN IF tp.before < max
                 THEN tp.ret /\ tp.aux_x = tp.before + 1
                 ELSE /\ ~tp.ret
                      /\ tp.aux_x = 1
                      /\ tp.advancesBefore = max - 1
            ELSE ~tp.ret /\ tp.aux_x = tp.before
       /\ tp.state = "done" => ~tp.ret
       /\ (tp.state = "done" /\ ortho.V.location # "CUDA") =>
            /\ ~tp.auxCalled
            /\ tp.aux_x = 1

\* a sweep on a device with 3 multiprocessors has ended after 5 advances
C28_Witness ==
  /\ tp.state = "done"
  /\ ortho.build.swizzle
  /\ ortho.build.multiProcessorCount = 3
  /\ tp.auxCalled
  /\ tp.before = 6
  /\ tp.advancesBefore = 5
  /\ tp.aux_x = 1
  /\ ~tp.ret

\* ------------------------------------------------------------------------
\* Properties of prepare()
\* ------------------------------------------------------------------------
\* C30: when DiracWilsonPC::prepare returns, the caller's src and sol
\* designate b and x for a preconditioned solution type, otherwise x.Odd()
\* (holding b_e + kappa * D_eo b_o) and x.Even() for even-even
\* preconditioning and x.Even() and x.Odd() for odd-odd preconditioning, and
\* any other preconditioning type is fatal; when DiracWilson::prepare
\* returns, the caller's src and sol designate b and x, and a preconditioned
\* solution type is fatal
C30_PrepareDesignates ==
  dirac.op # "none" /\ dirac.state # "pending" =>
    LET pcSol == dirac.solType \in {"QUDA_MATPC_SOLUTION",
                                    "QUDA_MATPCDAG_MATPC_SOLUTION"}
        OnReturn(src, sol) == /\ dirac.state = "returned"
                              /\ dirac.caller = [src |-> src, sol |-> sol]
    IN IF dirac.op = "DiracWilson"
       THEN IF pcSol THEN dirac.state = "fatal" ELSE OnReturn("b", "x")
       ELSE IF pcSol THEN OnReturn("b", "x")
       ELSE IF dirac.matpcType = "QUDA_MATPC_EVEN_EVEN"
       THEN /\ OnReturn("x.Odd()", "x.Even()")
            /\ dirac.x.Odd = <<"b.Even()", "+", "kappa", "D",
                               "QUDA_EVEN_PARITY", "b.Odd()">>
       ELSE IF dirac.matpcType = "QUDA_MATPC_ODD_ODD"
       THEN OnReturn("x.Even()", "x.Odd()")
       ELSE dirac.state = "fatal"

\* ------------------------------------------------------------------------
\* Properties of the tensor-core dslash5-inverse dagger kernel
\* ------------------------------------------------------------------------
TcThreads == DOMAIN tc.thread

TcWaiting(t) == tc.thread[t].pc \in {"sync223", "sync283", "sync293"}

TcExited == \A t \in TcThreads : tc.thread[t].pc = "exit"

\* threads of the block that wait in a barrier wait in the same
\* __syncthreads() for the same time, no thread has left the kernel while
\* another waits, and the block does not hang
BarriersUniform ==
  /\ ~tc.hung
  /\ \A t \in TcThreads : TcWaiting(t) =>
       \A u \in TcThreads :
         /\ tc.thread[u].pc # "exit"
         /\ TcWaiting(u) => /\ tc.thread[u].pc = tc.thread[t].pc
                            /\ tc.thread[u].sync = tc.thread[t].sync
  /\ TcExited =>
       \A t, u \in TcThreads :
         /\ tc.thread[t].iter = tc.thread[u].iter
         /\ tc.thread[t].sync = tc.thread[u].sync
         /\ tc.thread[t].sync = <<tc.thread[t].iter,
                                  tc.thread[t].iter * warp_cycle(tc.blockDim),
                                  tc.thread[t].iter>>

\* a thread is idle exactly from the first iteration whose site s4 is outside
\* the volume; an idle thread has skipped a load and skips the store of every
\* iteration it is idle in, and nothing else
IdleOnlySkips ==
  \A t \in TcThreads :
    LET th == tc.thread[t]
    IN /\ th.pc \in {"while", "exit"} => th.stores = th.loads
       /\ th.pc \notin {"while", "exit"} =>
            /\ th.idle <=> th.s4_base + t >= tc.threads
            /\ th.stores = th.loads - (IF th.idle THEN 0 ELSE 1)
       /\ IF th.idle THEN th.loads < th.iter ELSE th.loads = th.iter

\* C29: all threads of a block execute the same number of iterations of the
\* grid-stride while loop and reach each __syncthreads() the same number of
\* times, also the threads whose site index s4 >= param.threads, which skip
\* only the load and the store; an idle thread never becomes active again;
\* and the loop ends for the block
C29_BarrierUniformity ==
  /\ [](BarriersUniform /\ IdleOnlySkips)
  /\ [][\A t \in TcThreads : tc.thread[t].idle => tc'.thread[t].idle]_vars
  /\ <>TcExited

\* a block whose last stride is partly outside the volume has ended: a thread
\* that was idle in its second iteration and a thread that never was idle
\* have reached every barrier the same number of times
C29_Witness ==
  /\ TcThreads # {}
  /\ TcExited
  /\ \E t, u \in TcThreads :
       /\ tc.thread[t].idle /\ tc.thread[t].loads = 1
       /\ ~tc.thread[u].idle
       /\ tc.thread[t].iter = 2
       /\ tc.thread[t].sync = tc.thread[u].sync
       /\ tc.thread[t].sync[2] = 2 * warp_cycle(tc.blockDim)

====
